---- MODULE Spec2Model ----
(***************************************************************************)
(* Verification model of the query-gateway guards of graphrag-codebase:    *)
(* the circuit breaker (src/mcp/utils/circuit_breaker.py), the token       *)
(* bucket rate limiter (src/mcp/utils/rate_limiter.py), the ASGI front     *)
(* (src/mcp/http_server.py) and the query_codebase tool                    *)
(* (src/mcp/tools/query_tools.py).                                         *)
(*                                                                         *)
(* Time is a discrete clock `now`.  Coroutines run on one event loop, so   *)
(* every stretch of code between two awaits is one atomic action.          *)
(***************************************************************************)
EXTENDS Integers, Sequences, FiniteSets, TLC

(***************************************************************************)
(* Bounds of the model.                                                    *)
(***************************************************************************)
MaxTime == 4          \* the clock stops advancing here
MaxThreshold == 2     \* failure_threshold ranges over 1..MaxThreshold
MaxRecovery == 2      \* recovery_timeout ranges over 1..MaxRecovery (ticks)
MaxFailures == 3      \* cap on _failure_count
NumTasks == 2         \* concurrent calls through with_circuit_breaker
TicksPerMinute == 2   \* clock ticks in 60 seconds (rate limiter runs)
RlMaxTime == 3        \* the clock stops here in rate limiter runs
MaxRpm == 1           \* requests_per_minute ranges over 1..MaxRpm
MaxBurst == 2         \* burst_size ranges over 1..MaxBurst
HttpMaxTime == 1      \* the clock stops here in HTTP runs
MaxInvocations == 1   \* concurrent query_codebase invocations
QcMaxTicks == 2       \* the clock stops after this many ticks in query tool runs
MaxWords == 2         \* keywords in a query given to the validator
MaxLabels == 2        \* labels in a node pattern, types in a relationship pattern
MaxPathLen == 3       \* characters in a path argument
MaxLimits == 2        \* LIMIT clauses in a query given to enforce_limit
MaxTail == 3          \* whitespace and ';' characters ending a query given to enforce_limit
MaxAdds == 3          \* add_node and add_relationship calls on a builder
MaxBatch == 2         \* batch_size ranges over 1..MaxBatch
MaxEntities == 2      \* entities an extractor yields for a codebase
MaxEdges == 2         \* relationships an extractor yields for a codebase
MaxRuns == 3          \* build and clear-repo commands run
MaxChannels == 2      \* SSE channels open at a time
MaxPlays == 2         \* plays of a playbook

Tasks == 1..NumTasks
\* client ids as _get_client_id builds them
ApiClient == "api:k3y"
IpClient == "ip:10.0.0.7"
Clients == {ApiClient, IpClient}
NoClient == ""
\* allow() calls served at one instant: enough to empty a full bucket
MaxCallsPerTick == MaxBurst + 1

(***************************************************************************)
(* CircuitState                                                            *)
(***************************************************************************)
CLOSED == "closed"
OPEN == "open"
HALF_OPEN == "half_open"
CircuitState == {CLOSED, OPEN, HALF_OPEN}

\* _last_failure_time = None
NoTime == -1

\* Optional[List[str]] values of the decorator's suggested_tools argument
NoneTools == [none |-> TRUE, tools |-> << >>]
SomeTools(ts) == [none |-> FALSE, tools |-> ts]
SuggestedChoices == {NoneTools, SomeTools(<< >>), SomeTools(<<"tool1", "tool2">>)}

VARIABLES
    now,            \* datetime.now()
    breaker,        \* the CircuitBreaker instance
    suggested,      \* suggested_tools argument of with_circuit_breaker
    calls,          \* per task: position in wrapper() and the state it was admitted in
    consecutive,    \* history: record_failure calls since the last record_success
    lastRecorded,   \* history: time of the most recent record_failure call
    last,           \* history: the step just taken and the breaker before it
    limiter,        \* the RateLimiter instance
    admits,         \* history: per client, allow() calls that returned True, by age in ticks
    callsNow,       \* history: per client, allow() calls at the current instant
    fresh,          \* history: per client, its first request was at the current instant
    ideal,          \* history: per client, the bucket refilled eagerly at every tick
    rlLast,         \* history: the limiter call just made and its result
    response,       \* the request just handled by MCPServerApp and what was done with it
    cypher_generation_breaker,  \* the global breaker around generate_cypher
    neo4j_query_breaker,        \* the global breaker around execute_with_timeout
    qc,             \* per query_codebase invocation: position, locals, calls made, text returned
    fcall,          \* a call of one of the pure functions: its name, arguments and result
    tool,           \* the deterministic tool call in progress: position, arguments, queries passed on, text returned
    gb,             \* the GraphBuilder: schema, batch_size, _node_batch, _rel_batch
    store,          \* the graph store: nodes, edges, next identity
    adds,           \* history: number of add_node and add_relationship calls made
    expected,       \* history: per kind and merge key, the property-merge of the records added
    lost,           \* history: the kinds and merge keys a failed write has touched
    emitted,        \* history: the relationships accepted by add_relationship
    report,         \* history: the last builder operation and what its flushes did
    codebase,       \* what the extractor yields for a codebase: entities and relationships
    run,            \* the last command run: name, arguments, the store before it
    dispatch,       \* how the MCP session runs a request handler: in the channel's task or in a task of its own
    channel,        \* per SSE channel: whether it is open
    contexts,       \* per context: the value of _session_repo in it
    rpc,            \* per channel: the tool invocation in flight, its tool and arguments
    resolved,       \* history: the invocation handled last and the repository it resolved
    ctxHistory      \* history: per channel, the repository of the last set_repository_context completed on it

cbVars == <<breaker, suggested, calls, consecutive, lastRecorded, last>>
rlVars == <<limiter, admits, callsNow, fresh, ideal, rlLast>>
rlHistory == <<admits, callsNow, fresh, ideal, rlLast>>
httpVars == <<response>>
qcVars == <<cypher_generation_breaker, neo4j_query_breaker, qc>>
fnVars == <<fcall>>
toolVars == <<tool>>
gbHistory == <<adds, expected, lost, emitted, report>>
cmdVars == <<codebase, run>>
gbVars == <<gb, store, gbHistory, cmdVars>>
sessVars == <<dispatch, channel, contexts, rpc, resolved, ctxHistory>>
vars == <<now, cbVars, rlVars, httpVars, qcVars, fnVars, toolVars, gbVars, sessVars>>
nonCbVars == <<rlVars, httpVars, qcVars, fnVars, toolVars, gbVars, sessVars>>
nonRlVars == <<cbVars, httpVars, qcVars, fnVars, toolVars, gbVars, sessVars>>
nonHttpVars == <<cbVars, rlHistory, qcVars, fnVars, toolVars, gbVars, sessVars>>
nonQcVars == <<cbVars, rlVars, httpVars, fnVars, toolVars, gbVars, sessVars>>
nonFnVars == <<cbVars, rlVars, httpVars, qcVars, toolVars, gbVars, sessVars>>
nonToolVars == <<cbVars, rlVars, httpVars, cypher_generation_breaker, qc, fnVars, gbVars, sessVars>>
nonGbVars == <<cbVars, rlVars, httpVars, qcVars, fnVars, toolVars, sessVars>>
nonSessVars == <<cbVars, rlVars, httpVars, qcVars, fnVars, toolVars, gbVars>>

(***************************************************************************)
(* CircuitBreaker: the dataclass and its methods, as functions of the      *)
(* instance and the clock.                                                 *)
(***************************************************************************)
CircuitBreaker(name, threshold, recovery) ==
    [name |-> name,
     failure_threshold |-> threshold,
     recovery_timeout |-> recovery,
     failure_count |-> 0,
     last_failure_time |-> NoTime,
     state |-> CLOSED]

\* variant: the elapsed-time test is missing
state_no_elapsed(b, t) ==
    IF b.state = OPEN /\ b.last_failure_time # NoTime
    THEN [b EXCEPT !.state = HALF_OPEN]
    ELSE b

\* the `state` property: the instance after the read (the read may move
\* OPEN to HALF_OPEN); the value returned is the state field of the result
state(b, t) ==
    IF /\ b.state = OPEN
       /\ b.last_failure_time # NoTime
       /\ t - b.last_failure_time >= b.recovery_timeout
    THEN [b EXCEPT !.state = HALF_OPEN]
    ELSE b

\* variant: the failure count survives a success
record_success_keeps_count(b) ==
    [b EXCEPT !.state = CLOSED]

record_success(b) ==
    [b EXCEPT !.failure_count = 0, !.state = CLOSED]

\* variant: opens one failure late
record_failure_late(b, t) ==
    LET c == b.failure_count + 1 IN
    [b EXCEPT !.failure_count = c,
              !.last_failure_time = t,
              !.state = IF c > b.failure_threshold THEN OPEN ELSE @]

record_failure(b, t) ==
    LET c == b.failure_count + 1 IN
    [b EXCEPT !.failure_count = c,
              !.last_failure_time = t,
              !.state = IF c >= b.failure_threshold THEN OPEN ELSE @]

\* allow_request: the value returned (the instance after the call is state(b, t))
allow_request(b, t) ==
    LET s == state(b, t).state IN
    IF s = CLOSED THEN TRUE
    ELSE IF s = HALF_OPEN THEN TRUE
    ELSE FALSE

\* variant: the suggested tools are not passed on
CircuitOpenError_no_tools(circuit_name, suggested_tools) ==
    [type |-> "CircuitOpenError",
     circuit_name |-> circuit_name,
     suggested_tools |-> << >>]

\* CircuitOpenError(message, circuit_name, suggested_tools)
CircuitOpenError(circuit_name, suggested_tools) ==
    [type |-> "CircuitOpenError",
     circuit_name |-> circuit_name,
     suggested_tools |-> IF suggested_tools.none THEN << >> ELSE suggested_tools.tools]

NoError == [type |-> "none", circuit_name |-> "", suggested_tools |-> << >>]
FuncError == [type |-> "ValueError", circuit_name |-> "", suggested_tools |-> << >>]

IdleCall == [pc |-> "idle", admitted_in |-> CLOSED]

\* a step: the operation, the task that made it (0: a direct call), the
\* breaker before it, the exception it raised to its caller and whether it
\* invoked the wrapped function
StepOf(b, op, t, raised, invoked) ==
    [op |-> op, task |-> t, before |-> b, raised |-> raised, invoked |-> invoked]
Step(op, t) == StepOf(breaker, op, t, NoError, FALSE)

(***************************************************************************)
(* RateLimiter.  Token amounts are kept in units of 1/TicksPerMinute token *)
(* and time in ticks of 60/TicksPerMinute seconds, so that                 *)
(* elapsed * requests_per_minute / 60.0 is the integer                     *)
(* elapsed_ticks * requests_per_minute.                                    *)
(***************************************************************************)
Token == TicksPerMinute

Min(a, b) == IF a <= b THEN a ELSE b

\* Python dicts
EmptyDict == [k \in {} |-> 0]
DictSet(d, k, v) == [x \in (DOMAIN d) \cup {k} |-> IF x = k THEN v ELSE d[x]]
DictGet(d, k, default) == IF k \in DOMAIN d THEN d[k] ELSE default

RateLimiter(rpm, burst) ==
    [requests_per_minute |-> rpm,
     burst_size |-> burst,
     buckets |-> EmptyDict,
     last_update |-> EmptyDict]

\* variant: the time of the refill is not stored
refill_keeps_last_update(l, c, t) ==
    IF c \notin DOMAIN l.last_update
    THEN [l EXCEPT !.buckets = DictSet(@, c, l.burst_size * Token),
                   !.last_update = DictSet(@, c, t)]
    ELSE LET elapsed == t - l.last_update[c]
             tokens == Min(l.buckets[c] + elapsed * l.requests_per_minute,
                           l.burst_size * Token)
         IN [l EXCEPT !.buckets = DictSet(@, c, tokens)]

\* _refill: the limiter after the call; the value returned is buckets[c] of it
refill(l, c, t) ==
    IF c \notin DOMAIN l.last_update
    THEN [l EXCEPT !.buckets = DictSet(@, c, l.burst_size * Token),
                   !.last_update = DictSet(@, c, t)]
    ELSE LET elapsed == t - l.last_update[c]
             tokens == Min(l.buckets[c] + elapsed * l.requests_per_minute,
                           l.burst_size * Token)
         IN [l EXCEPT !.buckets = DictSet(@, c, tokens),
                      !.last_update = DictSet(@, c, t)]

\* variant: a whole token is not enough, more than one is needed
allow_strict(l, c, t) ==
    LET r == refill(l, c, t)
        tokens == r.buckets[c]
    IN IF tokens > Token
       THEN [limiter |-> [r EXCEPT !.buckets[c] = tokens - Token], ret |-> TRUE]
       ELSE [limiter |-> r, ret |-> FALSE]

\* variant: admits while any fraction of a token is left
allow_fraction(l, c, t) ==
    LET r == refill(l, c, t)
        tokens == r.buckets[c]
    IN IF tokens >= 1
       THEN [limiter |-> [r EXCEPT !.buckets[c] = IF tokens >= Token THEN tokens - Token ELSE 0],
             ret |-> TRUE]
       ELSE [limiter |-> r, ret |-> FALSE]

\* variant: a refused request still costs a token
allow_charges_refusal(l, c, t) ==
    LET r == refill(l, c, t)
        tokens == r.buckets[c]
    IN IF tokens >= Token
       THEN [limiter |-> [r EXCEPT !.buckets[c] = tokens - Token], ret |-> TRUE]
       ELSE [limiter |-> [r EXCEPT !.buckets[c] = 0], ret |-> FALSE]

\* allow: the limiter after the call and the value returned
allow(l, c, t) ==
    LET r == refill(l, c, t)
        tokens == r.buckets[c]
    IN IF tokens >= Token
       THEN [limiter |-> [r EXCEPT !.buckets[c] = tokens - Token], ret |-> TRUE]
       ELSE [limiter |-> r, ret |-> FALSE]

\* get_retry_after: seconds as the fraction num/den
get_retry_after(l, c) ==
    LET tokens == DictGet(l.buckets, c, 0) IN
    IF tokens >= Token
    THEN [num |-> 0, den |-> 1]
    ELSE [num |-> 60 * (Token - tokens), den |-> Token * l.requests_per_minute]

\* get_remaining: the limiter after the call and the value returned
get_remaining(l, c, t) ==
    LET r == refill(l, c, t) IN
    [limiter |-> r, ret |-> DictGet(r.buckets, c, l.burst_size * Token) \div Token]

\* a limiter call: the method, its client_id argument and the value returned
RlStep(op, c, ret) == [op |-> op, client |-> c, ret |-> ret]

(***************************************************************************)
(* Initial state of the circuit breaker component.                         *)
(***************************************************************************)
CbInit ==
    /\ now = 0
    /\ \E th \in 1..MaxThreshold, rt \in 1..MaxRecovery :
          breaker = CircuitBreaker("test", th, rt)
    /\ suggested \in SuggestedChoices
    /\ calls = [t \in Tasks |-> IdleCall]
    /\ consecutive = 0
    /\ lastRecorded = NoTime
    /\ last = Step("init", 0)

(***************************************************************************)
(* Actions of the circuit breaker component.                               *)
(***************************************************************************)
\* the clock advances
Tick ==
    /\ now < MaxTime
    /\ now' = now + 1
    /\ last' = Step("tick", 0)
    /\ UNCHANGED <<breaker, suggested, calls, consecutive, lastRecorded>>
    /\ UNCHANGED nonCbVars

\* a caller reads breaker.state or calls allow_request() / get_status()
ReadState ==
    /\ breaker' = state(breaker, now)
    /\ last' = Step("state", 0)
    /\ UNCHANGED <<now, suggested, calls, consecutive, lastRecorded>>
    /\ UNCHANGED nonCbVars

\* a caller calls breaker.record_success() directly
RecordSuccess ==
    /\ breaker' = record_success(breaker)
    /\ consecutive' = 0
    /\ last' = Step("record_success", 0)
    /\ UNCHANGED <<now, suggested, calls, lastRecorded>>
    /\ UNCHANGED nonCbVars

\* a caller calls breaker.record_failure() directly
RecordFailure ==
    /\ breaker.failure_count < MaxFailures
    /\ breaker' = record_failure(breaker, now)
    /\ consecutive' = consecutive + 1
    /\ lastRecorded' = now
    /\ last' = Step("record_failure", 0)
    /\ UNCHANGED <<now, suggested, calls>>
    /\ UNCHANGED nonCbVars

\* wrapper(): entry up to `await func(...)`, or the raise of CircuitOpenError
WrapperEnter(t) ==
    /\ calls[t].pc = "idle"
    /\ breaker' = state(breaker, now)
    /\ IF allow_request(breaker, now)
       THEN /\ calls' = [calls EXCEPT ![t] =
                  [pc |-> "running", admitted_in |-> state(breaker, now).state]]
            /\ last' = StepOf(breaker, "wrapper", t, NoError, TRUE)
       ELSE /\ calls' = calls
            /\ last' = StepOf(breaker, "wrapper", t,
                              CircuitOpenError(breaker.name, suggested), FALSE)
    /\ UNCHANGED <<now, suggested, consecutive, lastRecorded>>
    /\ UNCHANGED nonCbVars

\* wrapper(): func returned; record_success(); return result
WrapperReturn(t) ==
    /\ calls[t].pc = "running"
    /\ breaker' = record_success(breaker)
    /\ calls' = [calls EXCEPT ![t] = IdleCall]
    /\ consecutive' = 0
    /\ last' = Step("record_success", t)
    /\ UNCHANGED <<now, suggested, lastRecorded>>
    /\ UNCHANGED nonCbVars

\* wrapper(): func raised; record_failure(); re-raise
WrapperRaise(t) ==
    /\ calls[t].pc = "running"
    /\ breaker.failure_count < MaxFailures
    /\ breaker' = record_failure(breaker, now)
    /\ calls' = [calls EXCEPT ![t] = IdleCall]
    /\ consecutive' = consecutive + 1
    /\ lastRecorded' = now
    /\ last' = StepOf(breaker, "record_failure", t, FuncError, FALSE)
    /\ UNCHANGED <<now, suggested>>
    /\ UNCHANGED nonCbVars

CbNext ==
    \/ Tick
    \/ ReadState
    \/ RecordSuccess
    \/ RecordFailure
    \/ \E t \in Tasks : WrapperEnter(t)
    \/ \E t \in Tasks : WrapperReturn(t)
    \/ \E t \in Tasks : WrapperRaise(t)

(***************************************************************************)
(* Rate limiter component.                                                 *)
(***************************************************************************)
\* the process-wide instance
rate_limiter == RateLimiter(100, 10)

RlHistoryInit(l) ==
    /\ admits = [c \in Clients |-> [age \in 0..TicksPerMinute |-> 0]]
    /\ callsNow = [c \in Clients |-> 0]
    /\ fresh = [c \in Clients |-> FALSE]
    /\ ideal = [c \in Clients |-> l.burst_size * Token]
    /\ rlLast = RlStep("init", NoClient, FALSE)

\* the limiter as created at import, no request made yet
RlIdle ==
    /\ limiter = rate_limiter
    /\ RlHistoryInit(rate_limiter)

\* the breaker as created, no call made yet
CbIdle ==
    /\ breaker = CircuitBreaker("default", 3, 30)
    /\ suggested = NoneTools
    /\ calls = [t \in Tasks |-> IdleCall]
    /\ consecutive = 0
    /\ lastRecorded = NoTime
    /\ last = StepOf(CircuitBreaker("default", 3, 30), "init", 0, NoError, FALSE)

RlInit ==
    /\ now = 0
    /\ \E rpm \in 1..MaxRpm, burst \in 1..MaxBurst :
          /\ limiter = RateLimiter(rpm, burst)
          /\ RlHistoryInit(RateLimiter(rpm, burst))

\* the clock advances
RlTick ==
    /\ now < RlMaxTime
    /\ now' = now + 1
    /\ callsNow' = [c \in Clients |-> 0]
    /\ fresh' = [c \in Clients |-> FALSE]
    /\ admits' = [c \in Clients |-> [age \in 0..TicksPerMinute |->
            IF age = 0 THEN 0 ELSE admits[c][age - 1]]]
    /\ ideal' = [c \in Clients |->
            Min(ideal[c] + limiter.requests_per_minute, limiter.burst_size * Token)]
    /\ rlLast' = RlStep("tick", NoClient, FALSE)
    /\ UNCHANGED limiter
    /\ UNCHANGED nonRlVars

\* allow() calls served at the current instant, all clients together
ServedNow == callsNow[ApiClient] + callsNow[IpClient]

Seen(c) == IF c \notin DOMAIN limiter.last_update THEN [fresh EXCEPT ![c] = TRUE] ELSE fresh

\* limiter.allow(c)
Allow(c) ==
    /\ ServedNow < MaxCallsPerTick
    /\ LET r == allow(limiter, c, now) IN
         /\ limiter' = r.limiter
         /\ admits' = IF r.ret THEN [admits EXCEPT ![c][0] = @ + 1] ELSE admits
         /\ ideal' = IF r.ret THEN [ideal EXCEPT ![c] = @ - Token] ELSE ideal
         /\ rlLast' = RlStep("allow", c, r.ret)
    /\ callsNow' = [callsNow EXCEPT ![c] = @ + 1]
    /\ fresh' = Seen(c)
    /\ UNCHANGED now
    /\ UNCHANGED nonRlVars

\* limiter.get_remaining(c)
GetRemaining(c) ==
    /\ LET r == get_remaining(limiter, c, now) IN
         /\ limiter' = r.limiter
         /\ rlLast' = RlStep("get_remaining", c, r.ret)
    /\ fresh' = Seen(c)
    /\ UNCHANGED <<now, admits, callsNow, ideal>>
    /\ UNCHANGED nonRlVars

\* limiter.get_retry_after(c)
GetRetryAfter(c) ==
    /\ rlLast' = RlStep("get_retry_after", c, get_retry_after(limiter, c))
    /\ UNCHANGED <<now, limiter, admits, callsNow, fresh, ideal>>
    /\ UNCHANGED nonRlVars

RlNext ==
    \/ RlTick
    \/ \E c \in Clients : Allow(c)
    \/ \E c \in Clients : GetRemaining(c)
    \/ \E c \in Clients : GetRetryAfter(c)

(***************************************************************************)
(* MCPServerApp: the ASGI front.  A scope is the request: its type, path,  *)
(* method and the x-api-key header ("" when absent; the caller is then     *)
(* identified by its address).                                             *)
(***************************************************************************)
Scopes ==
    [type : {"http", "lifespan"},
     path : {"/sse", "/messages", "/health"},
     method : {"GET", "POST"},
     api_key : {"", "k3y"}]

get_client_id(scope) == IF scope.api_key # "" THEN ApiClient ELSE IpClient

\* the Starlette app: one route, /health
starlette(scope) ==
    IF scope.type # "http" THEN 0
    ELSE IF scope.path = "/health"
         THEN (IF scope.method = "GET" THEN 200 ELSE 405)
         ELSE 404

NoHeaders == [retry_after |-> -1, remaining |-> -1, limit |-> -1]

\* what __call__ did with a request
Handled(scope, handler, status, rate_checked, tool_dispatched, headers) ==
    [scope |-> scope, client |-> get_client_id(scope), handler |-> handler,
     status |-> status, rate_checked |-> rate_checked,
     tool_dispatched |-> tool_dispatched, headers |-> headers]

NoRequest ==
    [scope |-> [type |-> "", path |-> "", method |-> "", api_key |-> ""],
     client |-> NoClient, handler |-> "", status |-> 0, rate_checked |-> FALSE,
     tool_dispatched |-> FALSE, headers |-> NoHeaders]

\* variant: POST /messages falls through to the rate-limit check
call_limits_messages(l, scope, t) ==
    LET client_id == get_client_id(scope)
        a == allow(l, client_id, t)
        retry_after == get_retry_after(a.limiter, client_id)
        rem == get_remaining(a.limiter, client_id, t)
    IN
    IF scope.type # "http"
    THEN [limiter |-> l,
          response |-> Handled(scope, "starlette", starlette(scope), FALSE, FALSE, NoHeaders)]
    ELSE IF scope.path = "/sse" /\ scope.method = "GET"
    THEN [limiter |-> l,
          response |-> Handled(scope, "handle_sse", 200, FALSE, FALSE, NoHeaders)]
    ELSE IF ~a.ret
    THEN [limiter |-> a.limiter,
          response |-> Handled(scope, "rate_limited", 429, TRUE, FALSE,
                [retry_after |-> (retry_after.num \div retry_after.den) + 1,
                 remaining |-> 0, limit |-> -1])]
    ELSE IF scope.path = "/messages" /\ scope.method = "POST"
    THEN [limiter |-> rem.limiter,
          response |-> Handled(scope, "handle_messages", 202, TRUE, TRUE,
                [retry_after |-> -1, remaining |-> rem.ret, limit |-> 100])]
    ELSE [limiter |-> rem.limiter,
          response |-> Handled(scope, "starlette", starlette(scope), TRUE, FALSE,
                [retry_after |-> -1, remaining |-> rem.ret, limit |-> 100])]

\* MCPServerApp.__call__: the limiter after the request and what was done.
\* handle_post_message hands the posted JSON-RPC message to the session of
\* the SSE channel, where call_tool runs it (tool_dispatched).
call(l, scope, t) ==
    LET client_id == get_client_id(scope)
        a == allow(l, client_id, t)
        retry_after == get_retry_after(a.limiter, client_id)
        rem == get_remaining(a.limiter, client_id, t)
    IN
    IF scope.type # "http"
    THEN [limiter |-> l,
          response |-> Handled(scope, "starlette", starlette(scope), FALSE, FALSE, NoHeaders)]
    ELSE IF scope.path = "/sse" /\ scope.method = "GET"
    THEN [limiter |-> l,
          response |-> Handled(scope, "handle_sse", 200, FALSE, FALSE, NoHeaders)]
    ELSE IF scope.path = "/messages" /\ scope.method = "POST"
    THEN [limiter |-> l,
          response |-> Handled(scope, "handle_messages", 202, FALSE, TRUE, NoHeaders)]
    ELSE IF ~a.ret
    THEN [limiter |-> a.limiter,
          response |-> Handled(scope, "rate_limited", 429, TRUE, FALSE,
                [retry_after |-> (retry_after.num \div retry_after.den) + 1,
                 remaining |-> 0, limit |-> -1])]
    ELSE [limiter |-> rem.limiter,
          response |-> Handled(scope, "starlette", starlette(scope), TRUE, FALSE,
                [retry_after |-> -1, remaining |-> rem.ret, limit |-> 100])]

HttpIdle == response = NoRequest

HttpInit ==
    /\ now = 0
    /\ limiter = rate_limiter
    /\ RlHistoryInit(rate_limiter)
    /\ response = NoRequest

\* the clock advances
HttpTick ==
    /\ now < HttpMaxTime
    /\ now' = now + 1
    /\ UNCHANGED <<limiter, response>>
    /\ UNCHANGED nonHttpVars

\* a request arrives and is handled
HttpRequest(scope) ==
    /\ LET r == call(limiter, scope, now) IN
         /\ limiter' = r.limiter
         /\ response' = r.response
    /\ UNCHANGED now
    /\ UNCHANGED nonHttpVars

HttpNext ==
    \/ HttpTick
    \/ \E scope \in Scopes : HttpRequest(scope)

(***************************************************************************)
(* Cypher text.  A query is kept as what the regular expressions of the    *)
(* validator and of enforce_limit see in it: its keywords in order, its    *)
(* node patterns, its relationship patterns and the numbers of its LIMIT   *)
(* clauses in order.                                                       *)
(***************************************************************************)
\* (var:Label), (var:Label {..}), (var:A:B)
NodePattern(var, labels, props) == [var |-> var, labels |-> labels, props |-> props]
\* [var:TYPE], [var:TYPE*1..3], [var:A|B]
RelPattern(var, types, varlen) == [var |-> var, types |-> types, varlen |-> varlen]

\* tail: the run of whitespace and ';' characters that ends the text as it
\* was written; a LIMIT appended by enforce_limit comes after what is left of it
Space == " "
Semi == ";"
Query(words, nodes, rels, limits, tail) ==
    [words |-> words, nodes |-> nodes, rels |-> rels, limits |-> limits,
     tail |-> tail]

NoQuery == Query(<< >>, << >>, << >>, << >>, << >>)

\* GraphSchema
GraphSchema(labels, rels) == [node_labels |-> labels, relationship_types |-> rels]
NoSchema == GraphSchema({}, {})

\* ValidationResult
ValidationResult(errors, warnings) ==
    [is_valid |-> Len(errors) = 0, errors |-> errors, warnings |-> warnings]

FORBIDDEN_PATTERNS ==
    << [pattern |-> <<"DETACH", "DELETE">>, description |-> "DETACH DELETE operations"],
       [pattern |-> <<"DROP">>, description |-> "DROP operations"],
       [pattern |-> <<"CREATE", "INDEX">>, description |-> "CREATE INDEX operations"],
       [pattern |-> <<"CREATE", "CONSTRAINT">>, description |-> "CREATE CONSTRAINT operations"],
       [pattern |-> <<"CALL", "db.">>, description |-> "db.* procedure calls"],
       [pattern |-> <<"CALL", "apoc.">>, description |-> "APOC procedure calls"],
       [pattern |-> <<"DELETE">>, description |-> "DELETE operations"],
       [pattern |-> <<"REMOVE">>, description |-> "REMOVE operations"],
       [pattern |-> <<"SET">>, description |-> "SET operations"],
       [pattern |-> <<"CREATE">>, description |-> "CREATE operations"],
       [pattern |-> <<"MERGE">>, description |-> "MERGE operations"] >>

\* re.search of a keyword pattern: the words of the pattern, adjacent, anywhere
search(pattern, words) ==
    \E i \in 1..Len(words) :
        /\ i + Len(pattern) - 1 <= Len(words)
        /\ \A j \in 1..Len(pattern) : words[i + j - 1] = pattern[j]

\* re.findall(r"\([\w]*:([\w]+)\)"): the label of each pattern made of an
\* optional variable, one colon, one label and the closing parenthesis
labels_used(query) ==
    {query.nodes[i].labels[1] : i \in {k \in 1..Len(query.nodes) :
        Len(query.nodes[k].labels) = 1 /\ ~query.nodes[k].props}}

\* re.findall(r"\[[\w]*:([\w]+)\]")
rels_used(query) ==
    {query.rels[i].types[1] : i \in {k \in 1..Len(query.rels) :
        Len(query.rels[k].types) = 1 /\ ~query.rels[k].varlen}}

RECURSIVE forbidden_errors(_, _)
forbidden_errors(query, k) ==
    IF k > Len(FORBIDDEN_PATTERNS) THEN << >>
    ELSE (IF search(FORBIDDEN_PATTERNS[k].pattern, query.words)
          THEN << [kind |-> "Forbidden", what |-> FORBIDDEN_PATTERNS[k].description,
                   names |-> {}] >>
          ELSE << >>) \o forbidden_errors(query, k + 1)

\* CypherValidator(schema).validate(query); of the warnings only the one
\* about a missing LIMIT is kept
validate(schema, query) ==
    LET unknown_labels == labels_used(query) \ schema.node_labels
        unknown_rels == rels_used(query) \ schema.relationship_types
        errors ==
            forbidden_errors(query, 1)
            \o (IF unknown_labels # {}
                THEN << [kind |-> "Unknown node labels", what |-> "",
                         names |-> unknown_labels] >>
                ELSE << >>)
            \o (IF unknown_rels # {}
                THEN << [kind |-> "Unknown relationship types", what |-> "",
                         names |-> unknown_rels] >>
                ELSE << >>)
        warnings ==
            IF query.limits = << >>
            THEN << "No LIMIT clause (will be added automatically)" >>
            ELSE << >>
    IN ValidationResult(errors, warnings)

MAX_RESULTS_DEFAULT == 100
MAX_RESULTS_ABSOLUTE == 1000

\* str.rstrip(chars)
RECURSIVE rstrip(_, _)
rstrip(s, chars) ==
    IF s # << >> /\ s[Len(s)] \in chars THEN rstrip(SubSeq(s, 1, Len(s) - 1), chars) ELSE s

\* enforce_limit(query, max_results)
enforce_limit(query, max_results) ==
    LET effective_limit == Min(max_results, MAX_RESULTS_ABSOLUTE) IN
    IF query.limits # << >>
    THEN IF query.limits[1] > MAX_RESULTS_ABSOLUTE
         THEN [query EXCEPT !.limits = [i \in 1..Len(query.limits) |-> MAX_RESULTS_ABSOLUTE]]
         ELSE query
    ELSE [query EXCEPT !.limits = << effective_limit >>,
                       !.tail = rstrip(rstrip(query.tail, {Space}), {Semi})]

(***************************************************************************)
(* query_codebase.  The clock counts seconds in these runs.                *)
(***************************************************************************)
Invocations == 1..MaxInvocations
SecondsPerTick == 30

DETERMINISTIC_TOOLS ==
    <<"find_dependencies", "trace_variable", "get_role_usage", "analyze_playbook",
      "find_tasks_by_module", "get_task_hierarchy", "find_template_usage">>

\* what CALL db.labels() and CALL db.relationshipTypes() return
DbSchema == GraphSchema({"Playbook", "Task"}, {"HAS_TASK"})

\* completions of the LLM: the query in it, and whether it is wrapped in a
\* ```cypher fence
LlmQueries ==
    {Query(w, <<n>>, <<r>>, << >>, << >>) :
        w \in {<<"MATCH", "RETURN">>, <<"MATCH", "DETACH", "DELETE">>},
        n \in {NodePattern("t", <<"Task">>, FALSE), NodePattern("h", <<"Host">>, FALSE),
                NodePattern("h", <<"Host">>, TRUE)},
        r \in {RelPattern("", <<"HAS_TASK">>, FALSE), RelPattern("r", <<"RUNS">>, FALSE)}}
    \cup {Query(<<"MATCH", "RETURN">>, <<NodePattern("t", <<"Task">>, FALSE)>>,
                 <<RelPattern("", <<"HAS_TASK">>, FALSE)>>, <<5000, 20>>, <<Semi>>)}
LlmTexts ==
    {[fenced |-> FALSE, query |-> q] : q \in LlmQueries}
    \cup {[fenced |-> TRUE,
            query |-> Query(<<"MATCH", "SET", "RETURN">>,
                            <<NodePattern("t", <<"Task">>, FALSE)>>, << >>, <<10>>, << >>)]}

\* generate_cypher after the completion: markup removed, strip(), enforce_limit
generate_cypher(text) ==
    enforce_limit([text.query EXCEPT !.tail = rstrip(text.query.tail, {Space})],
                  MAX_RESULTS_DEFAULT)

\* texts returned to the caller
TextContent(kind, errors, circuit_name, tools) ==
    [kind |-> kind, errors |-> errors, circuit_name |-> circuit_name, tools |-> tools]
NoText == TextContent("none", << >>, "", << >>)
\* "Invalid query generated:" and one "  - " line per error
InvalidText(errors) == TextContent("invalid", errors, "", << >>)
TIMEOUT_ERROR_MSG == TextContent("timeout", << >>, "", << >>)
ErrorText == TextContent("error", << >>, "", << >>)
ResultsText == TextContent("results", << >>, "", << >>)
\* CircuitOpenError.format_message
format_message(e) == TextContent("circuit_open", << >>, e.circuit_name, e.suggested_tools)

Invocation(pc, schema, cypher, executed, output) ==
    [pc |-> pc, schema |-> schema, cypher |-> cypher, executed |-> executed,
     output |-> output]
IdleInvocation == Invocation("idle", NoSchema, NoQuery, << >>, NoText)

\* variant: the query is executed whatever the validator says
validate_and_execute_unchecked(schema, cypher, b, t) ==
    IF ~allow_request(b, t)
    THEN [pc |-> "done", executed |-> <<cypher>>, breaker |-> state(b, t),
          output |-> format_message(CircuitOpenError(b.name, NoneTools))]
    ELSE [pc |-> "neo4j", executed |-> <<cypher>>, breaker |-> state(b, t),
          output |-> NoText]

\* query_codebase from validator.validate(cypher) to the await inside
\* conn.execute_query: where the invocation is next, the queries passed to
\* execute_query, the neo4j breaker and the text returned
validate_and_execute(schema, cypher, b, t) ==
    LET validation == validate(schema, cypher) IN
    IF ~validation.is_valid
    THEN [pc |-> "done", executed |-> << >>, breaker |-> b,
          output |-> InvalidText(validation.errors)]
    ELSE IF ~allow_request(b, t)
    THEN [pc |-> "done", executed |-> <<cypher>>, breaker |-> state(b, t),
          output |-> format_message(CircuitOpenError(b.name, NoneTools))]
    ELSE [pc |-> "neo4j", executed |-> <<cypher>>, breaker |-> state(b, t),
          output |-> NoText]

QcIdle ==
    /\ cypher_generation_breaker = CircuitBreaker("cypher_generation", 3, 30)
    /\ neo4j_query_breaker = CircuitBreaker("neo4j_query", 5, 60)
    /\ qc = [i \in Invocations |-> IdleInvocation]

QcInit ==
    /\ now = 0
    /\ QcIdle

\* the clock advances
QcTick ==
    /\ now < QcMaxTicks * SecondsPerTick
    /\ now' = now + SecondsPerTick
    /\ UNCHANGED qcVars
    /\ UNCHANGED nonQcVars

\* the tool is called: up to the await in GraphSchema.from_neo4j
QcStart(i) ==
    /\ qc[i].pc \in {"idle", "done"}
    /\ qc' = [qc EXCEPT ![i] = Invocation("schema", NoSchema, NoQuery, << >>, NoText)]
    /\ UNCHANGED <<now, cypher_generation_breaker, neo4j_query_breaker>>
    /\ UNCHANGED nonQcVars

\* from_neo4j returns; generate_cypher is entered through its breaker
QcSchemaLoaded(i) ==
    /\ qc[i].pc = "schema"
    /\ cypher_generation_breaker' = state(cypher_generation_breaker, now)
    /\ IF allow_request(cypher_generation_breaker, now)
       THEN qc' = [qc EXCEPT ![i].schema = DbSchema, ![i].pc = "llm"]
       ELSE qc' = [qc EXCEPT ![i].schema = DbSchema, ![i].pc = "done",
                ![i].output = format_message(
                    CircuitOpenError(cypher_generation_breaker.name,
                                     SomeTools(DETERMINISTIC_TOOLS)))]
    /\ UNCHANGED <<now, neo4j_query_breaker>>
    /\ UNCHANGED nonQcVars

\* from_neo4j raises
QcSchemaFailed(i) ==
    /\ qc[i].pc = "schema"
    /\ qc' = [qc EXCEPT ![i].pc = "done", ![i].output = ErrorText]
    /\ UNCHANGED <<now, cypher_generation_breaker, neo4j_query_breaker>>
    /\ UNCHANGED nonQcVars

\* llm.acomplete returns; the query is validated and, if valid, passed to
\* execute_query through the neo4j breaker
QcGenerated(i, text) ==
    /\ qc[i].pc = "llm"
    /\ cypher_generation_breaker' = record_success(cypher_generation_breaker)
    /\ \E cypher \in {generate_cypher(text)} :
       \E r \in {validate_and_execute(qc[i].schema, cypher, neo4j_query_breaker, now)} :
          /\ qc' = [qc EXCEPT ![i] =
                  Invocation(r.pc, qc[i].schema, cypher, r.executed, r.output)]
          /\ neo4j_query_breaker' = r.breaker
    /\ UNCHANGED now
    /\ UNCHANGED nonQcVars

\* llm.acomplete raises
QcGenerationFailed(i) ==
    /\ qc[i].pc = "llm"
    /\ cypher_generation_breaker' = record_failure(cypher_generation_breaker, now)
    /\ qc' = [qc EXCEPT ![i].pc = "done", ![i].output = ErrorText]
    /\ UNCHANGED <<now, neo4j_query_breaker>>
    /\ UNCHANGED nonQcVars

\* the query returns its rows
QcRows(i) ==
    /\ qc[i].pc = "neo4j"
    /\ neo4j_query_breaker' = record_success(neo4j_query_breaker)
    /\ qc' = [qc EXCEPT ![i].pc = "done", ![i].output = ResultsText]
    /\ UNCHANGED <<now, cypher_generation_breaker>>
    /\ UNCHANGED nonQcVars

\* the query exceeds its deadline: QueryTimeoutError
QcTimeout(i) ==
    /\ qc[i].pc = "neo4j"
    /\ neo4j_query_breaker' = record_failure(neo4j_query_breaker, now)
    /\ qc' = [qc EXCEPT ![i].pc = "done", ![i].output = TIMEOUT_ERROR_MSG]
    /\ UNCHANGED <<now, cypher_generation_breaker>>
    /\ UNCHANGED nonQcVars

\* the query raises anything else
QcQueryFailed(i) ==
    /\ qc[i].pc = "neo4j"
    /\ neo4j_query_breaker' = record_failure(neo4j_query_breaker, now)
    /\ qc' = [qc EXCEPT ![i].pc = "done", ![i].output = ErrorText]
    /\ UNCHANGED <<now, cypher_generation_breaker>>
    /\ UNCHANGED nonQcVars

QcNext ==
    \/ QcTick
    \/ \E i \in Invocations : QcStart(i)
    \/ \E i \in Invocations : QcSchemaLoaded(i)
    \/ \E i \in Invocations : QcSchemaFailed(i)
    \/ \E i \in Invocations, text \in LlmTexts : QcGenerated(i, text)
    \/ \E i \in Invocations : QcGenerationFailed(i)
    \/ \E i \in Invocations : QcRows(i)
    \/ \E i \in Invocations : QcTimeout(i)
    \/ \E i \in Invocations : QcQueryFailed(i)

(***************************************************************************)
(* Paths.  A path string is the sequence of its characters; NUL is the     *)
(* null byte.  The file system has no symbolic links.                      *)
(***************************************************************************)
NUL == "\\x00"
Slash == "/"
Dot == "."

\* str.split("/") from position i on, cur being the segment read so far
RECURSIVE split(_, _, _)
split(path, i, cur) ==
    IF i > Len(path) THEN <<cur>>
    ELSE IF path[i] = Slash THEN <<cur>> \o split(path, i + 1, << >>)
    ELSE split(path, i + 1, Append(cur, path[i]))

\* "/".join(comps)
RECURSIVE join(_)
join(comps) ==
    IF comps = << >> THEN << >>
    ELSE IF Len(comps) = 1 THEN comps[1]
    ELSE comps[1] \o <<Slash>> \o join(Tail(comps))

\* the loop of posixpath.normpath over the components from k on
RECURSIVE new_comps(_, _, _, _)
new_comps(comps, k, initial_slashes, acc) ==
    IF k > Len(comps) THEN acc
    ELSE LET comp == comps[k] IN
         IF comp = << >> \/ comp = <<Dot>> THEN new_comps(comps, k + 1, initial_slashes, acc)
         ELSE IF \/ comp # <<Dot, Dot>>
                 \/ (initial_slashes = 0 /\ acc = << >>)
                 \/ (acc # << >> /\ acc[Len(acc)] = <<Dot, Dot>>)
              THEN new_comps(comps, k + 1, initial_slashes, Append(acc, comp))
         ELSE IF acc # << >>
              THEN new_comps(comps, k + 1, initial_slashes, SubSeq(acc, 1, Len(acc) - 1))
         ELSE new_comps(comps, k + 1, initial_slashes, acc)

\* the number of leading slashes posixpath.normpath keeps
initial_slashes_of(path) ==
    IF path = << >> \/ path[1] # Slash THEN 0
    ELSE IF Len(path) >= 2 /\ path[2] = Slash /\ ~(Len(path) >= 3 /\ path[3] = Slash) THEN 2
    ELSE 1

\* os.path.normpath
normpath(path) ==
    IF path = << >> THEN <<Dot>>
    ELSE LET n == initial_slashes_of(path)
             body == join(new_comps(split(path, 1, << >>), 1, n, << >>))
             out == [i \in 1..n |-> Slash] \o body
         IN IF out = << >> THEN <<Dot>> ELSE out

\* os.path.isabs
isabs(path) == path # << >> /\ path[1] = Slash

\* Path(path).resolve(): absolute and normalised, relative ones taken from cwd
resolve(path, cwd) ==
    IF isabs(path) THEN normpath(path) ELSE normpath(cwd \o <<Slash>> \o path)

\* full_path.relative_to(base) succeeds: same root, and the parts of base
\* are the first parts of full_path
is_relative_to(full_path, base) ==
    LET fp == new_comps(split(full_path, 1, << >>), 1, 1, << >>)
        bp == new_comps(split(base, 1, << >>), 1, 1, << >>)
    IN /\ initial_slashes_of(full_path) = initial_slashes_of(base)
       /\ Len(bp) <= Len(fp)
       /\ SubSeq(fp, 1, Len(bp)) = bp

NoBase == << >>
Raised(message) == [raised |-> "PathSanitizationError", message |-> message, path |-> << >>]
Returned(path) == [raised |-> "", message |-> "", path |-> path]

\* sanitize_path(user_path, allowed_base, allow_absolute), the working
\* directory of the process being cwd
sanitize_path(user_path, allowed_base, allow_absolute, cwd) ==
    IF user_path = << >> THEN Raised("Empty path provided")
    ELSE IF search(<<NUL>>, user_path) THEN Raised("Null byte in path")
    ELSE IF search(<<Dot, Dot>>, user_path)
    THEN Raised("Path traversal detected: '..' not allowed")
    ELSE LET normalized == normpath(user_path) IN
         IF isabs(normalized) /\ ~allow_absolute THEN Raised("Absolute paths not allowed")
         ELSE IF allowed_base # NoBase
         THEN LET base == resolve(allowed_base, cwd)
                  full_path == IF allow_absolute THEN resolve(normalized, cwd)
                               ELSE resolve(base \o <<Slash>> \o normalized, cwd)
              IN IF is_relative_to(full_path, base) THEN Returned(full_path)
                 ELSE Raised("Path escapes allowed directory")
         ELSE Returned(normalized)

\* values of config.pipeline.codebase_path: None or a directory
CodebasePaths == {NoBase, <<Slash, "a">>}
\* the working directory of the server
ServerCwd == <<Slash>>

\* variant: the path is passed on as given
validate_file_path_param_unchecked(file_path, codebase_root) ==
    Returned(file_path)

\* validate_file_path_param(file_path), codebase_root read from the config
validate_file_path_param(file_path, codebase_root) ==
    sanitize_path(file_path, codebase_root, FALSE, ServerCwd)

(***************************************************************************)
(* The deterministic tools.  Each builds one template query (two for       *)
(* trace_variable) and passes it with its parameters to execute_query.     *)
(***************************************************************************)
NoRepo == ""
NoPath == << >>
Params(path, name, repo) == [path |-> path, name |-> name, repo |-> repo]
\* what a tool does before its first await: the sanitizer result if it has
\* a path argument, and the queries it will pass to execute_query in order
Plan(checked, safe, queries, params) ==
    [checked |-> checked, safe |-> safe, queries |-> queries, params |-> params]
NotChecked == Returned(NoPath)

\* the node pattern of a template: property map with repository when repo is set
Anchor(var, label) == NodePattern(var, <<label>>, TRUE)

find_dependencies(file_path, repo, codebase_root) ==
    LET safe_path == validate_file_path_param(file_path, codebase_root) IN
    Plan(TRUE, safe_path,
         << Query(IF repo # NoRepo
                  THEN <<"MATCH", "OPTIONAL", "MATCH", "WHERE", "RETURN">>
                  ELSE <<"MATCH", "OPTIONAL", "MATCH", "RETURN">>,
                  <<Anchor("f", "File")>>,
                  <<RelPattern("", <<"INCLUDES", "IMPORTS", "LOADS_VARS">>, FALSE)>>,
                  << >>, << >>) >>,
         Params(safe_path.path, "", repo))

analyze_playbook(playbook_path, repo, codebase_root) ==
    LET safe_path == validate_file_path_param(playbook_path, codebase_root) IN
    Plan(TRUE, safe_path,
         << Query(<<"MATCH", "OPTIONAL", "MATCH", "OPTIONAL", "MATCH", "RETURN">>,
                  <<Anchor("p", "Playbook")>>,
                  <<RelPattern("", <<"HAS_PLAY">>, FALSE), RelPattern("", <<"HAS_TASK">>, FALSE)>>,
                  << >>, << >>) >>,
         Params(safe_path.path, "", repo))

find_tasks_by_module(module_name, repo) ==
    Plan(FALSE, NotChecked,
         << Query(<<"MATCH", "RETURN", "LIMIT">>, <<Anchor("t", "Task")>>, << >>,
                  <<50>>, << >>) >>,
         Params(NoPath, module_name, repo))

get_task_hierarchy(playbook_path, repo, codebase_root) ==
    LET safe_path == validate_file_path_param(playbook_path, codebase_root) IN
    Plan(TRUE, safe_path,
         << Query(<<"MATCH", "OPTIONAL", "MATCH", "RETURN", "ORDER", "BY">>,
                  <<Anchor("p", "Playbook")>>,
                  <<RelPattern("", <<"HAS_PLAY">>, FALSE), RelPattern("", <<"HAS_TASK">>, FALSE)>>,
                  << >>, << >>) >>,
         Params(safe_path.path, "", repo))

find_template_usage(template_path, repo, codebase_root) ==
    LET safe_path == validate_file_path_param(template_path, codebase_root) IN
    Plan(TRUE, safe_path,
         << Query(<<"MATCH", "OPTIONAL", "MATCH", "OPTIONAL", "MATCH", "RETURN">>,
                  <<Anchor("t", "Template"), NodePattern("task", <<"Task">>, FALSE),
                    NodePattern("v", <<"Variable">>, FALSE)>>,
                  <<RelPattern("", <<"USES_TEMPLATE">>, FALSE), RelPattern("", <<"USES_VAR">>, FALSE)>>,
                  << >>, << >>) >>,
         Params(safe_path.path, "", repo))

trace_variable(variable_name, repo) ==
    Plan(FALSE, NotChecked,
         << Query(<<"MATCH", "OPTIONAL", "MATCH", "RETURN">>, <<Anchor("v", "Variable")>>,
                  <<RelPattern("", <<"DEFINES_VAR">>, FALSE)>>, << >>, << >>),
            Query(<<"MATCH", "OPTIONAL", "MATCH", "RETURN">>, <<Anchor("v", "Variable")>>,
                  <<RelPattern("", <<"USES_VAR">>, FALSE)>>, << >>, << >>) >>,
         Params(NoPath, variable_name, repo))

get_role_usage(role_name, repo) ==
    Plan(FALSE, NotChecked,
         << Query(<<"MATCH", "OPTIONAL", "MATCH", "WHERE", "RETURN">>, <<Anchor("r", "Role")>>,
                  <<RelPattern("", <<"USES_ROLE">>, FALSE)>>, << >>, << >>) >>,
         Params(NoPath, role_name, repo))


(***************************************************************************)
(* The pure functions, each called once on an argument drawn from a        *)
(* bounded set.                                                            *)
(***************************************************************************)
\* sequences over S of length lo..hi
SeqsOf(S, lo, hi) == UNION {[1..k -> S] : k \in lo..hi}

FnCall(fn, args, result) == [fn |-> fn, args |-> args, result |-> result]
NoCall == FnCall("", << >>, << >>)

KeyWords == {"MATCH", "DELETE", "SET", "CALL", "db.", "dbms."}
NodePatterns ==
    {NodePattern(v, ls, p) :
        v \in {"", "n"}, ls \in SeqsOf({"Task", "Host"}, 1, MaxLabels), p \in BOOLEAN}
RelPatterns ==
    {RelPattern("", ts, vl) :
        ts \in SeqsOf({"HAS_TASK", "RUNS"}, 1, MaxLabels), vl \in BOOLEAN}

\* queries given to the validator
ValidatorQueries ==
    {Query(w, << >>, << >>, << >>, << >>) : w \in SeqsOf(KeyWords, 0, MaxWords)}
    \cup {Query(<<"MATCH">>, ns, rs, << >>, << >>) :
            ns \in SeqsOf(NodePatterns, 0, 1), rs \in SeqsOf(RelPatterns, 0, 1)}

FnIdle == fcall = NoCall

FnInit ==
    /\ now = 0
    /\ FnIdle

\* CypherValidator(schema).validate(query)
Validate(schema, query) ==
    /\ fcall = NoCall
    /\ fcall' = FnCall("validate", <<schema, query>>, validate(schema, query))
    /\ UNCHANGED now
    /\ UNCHANGED nonFnVars

\* arguments of sanitize_path
PathChars == {Slash, Dot, "a", NUL}
ToolPaths == SeqsOf(PathChars, 0, MaxPathLen)
AllowedBases == {NoBase, <<Slash, "a">>, <<"a">>}
Cwds == {<<Slash>>, <<Slash, "a">>}

\* sanitize_path is called on its own
SanitizePath(user_path, allowed_base, allow_absolute, cwd) ==
    /\ fcall = NoCall
    /\ fcall' = FnCall("sanitize_path", <<user_path, allowed_base, allow_absolute, cwd>>,
                       sanitize_path(user_path, allowed_base, allow_absolute, cwd))
    /\ UNCHANGED now
    /\ UNCHANGED nonFnVars

PathNext ==
    \E p \in ToolPaths, b \in AllowedBases, a \in BOOLEAN, c \in Cwds :
        SanitizePath(p, b, a, c)

\* arguments of enforce_limit
LimitQueries ==
    {Query(<<"MATCH", "RETURN">>, << >>, << >>, l, t) :
        l \in SeqsOf({10, MAX_RESULTS_ABSOLUTE, 5000}, 0, MaxLimits),
        t \in SeqsOf({Space, Semi}, 0, MaxTail)}
MaxResults == {50, MAX_RESULTS_DEFAULT, 5000}

\* enforce_limit is called on its own
EnforceLimit(query, max_results) ==
    /\ fcall = NoCall
    /\ fcall' = FnCall("enforce_limit", <<query, max_results>>,
                       enforce_limit(query, max_results))
    /\ UNCHANGED now
    /\ UNCHANGED nonFnVars

FnNext ==
    \/ \E query \in ValidatorQueries : Validate(DbSchema, query)
    \/ \E query \in LimitQueries, max_results \in MaxResults : EnforceLimit(query, max_results)
    \/ PathNext

(***************************************************************************)
(* The graph builder and the store.  A property dictionary is a function   *)
(* from property names to values; the store gives every node and edge an   *)
(* identity of its own.                                                    *)
(***************************************************************************)
None == "None"
PropNames == {"repository", "path", "name", "file_path", "line"}

\* Node
Node(node_type, properties) == [node_type |-> node_type, properties |-> properties]
\* Relationship
Relationship(rel_type, from_node, to_node, properties) ==
    [rel_type |-> rel_type, from_node |-> from_node, to_node |-> to_node,
     properties |-> properties]

\* to_cypher_dict: the entries whose value is not None
to_cypher_dict(properties) ==
    [k \in {p \in DOMAIN properties : properties[p] # None} |-> properties[k]]

\* dict.get(key): None when the key is absent
get(d, key) == IF key \in DOMAIN d THEN d[key] ELSE None

\* SET x += props
set_plus(old, props) ==
    [k \in DOMAIN old \cup DOMAIN props |-> IF k \in DOMAIN props THEN props[k] ELSE old[k]]

\* GraphBuilder._get_merge_keys
get_merge_keys(node_type) ==
    IF node_type \in {"File", "Playbook", "Template", "Inventory", "VarsFile", "Directory"}
    THEN <<"repository", "path">>
    ELSE IF node_type = "Role" THEN <<"name">>
    ELSE IF node_type = "Play" THEN <<"repository", "playbook_path", "name", "order">>
    ELSE IF node_type = "Task" THEN <<"repository", "file_path", "name", "order">>
    ELSE IF node_type = "Handler" THEN <<"repository", "file_path", "name">>
    ELSE IF node_type = "Variable" THEN <<"repository", "name", "scope", "file_path">>
    ELSE IF node_type = "Module" THEN <<"repository", "path">>
    ELSE IF node_type = "Class" THEN <<"repository", "name">>
    ELSE IF node_type = "Function" THEN <<"repository", "name">>
    ELSE IF node_type = "Import" THEN <<"repository", "module", "alias">>
    ELSE IF node_type = "Reference" THEN <<"repository", "name">>
    ELSE <<"name">>

\* the elements of a sequence
Range(s) == {s[i] : i \in 1..Len(s)}

\* the store: nodes and edges with their identities, and the next identity
Store(nodes, edges, next) == [nodes |-> nodes, edges |-> edges, next |-> next]
EmptyStore == Store({}, {}, 1)
StoredNode(id, label, props) == [id |-> id, label |-> label, props |-> props]
StoredEdge(id, from, type, to, props) ==
    [id |-> id, from |-> from, type |-> type, to |-> to, props |-> props]

\* variant: CREATE (n:Label) SET n += props
merge_node_create(s, label, merge_keys, props) ==
    Store(s.nodes \cup {StoredNode(s.next, label, props)}, s.edges, s.next + 1)

\* MERGE (n:Label {key: props.key, ...}) SET n += props, for one row
merge_node(s, label, merge_keys, props) ==
    LET matched == {n \in s.nodes :
                       /\ n.label = label
                       /\ \A k \in Range(merge_keys) : get(n.props, k) = get(props, k)}
    IN IF matched = {}
       THEN Store(s.nodes \cup {StoredNode(s.next, label, props)}, s.edges, s.next + 1)
       ELSE Store({IF n \in matched THEN [n EXCEPT !.props = set_plus(n.props, props)] ELSE n :
                      n \in s.nodes},
                  s.edges, s.next)

\* UNWIND $batch AS props MERGE ... SET ...: the rows from k on
RECURSIVE unwind_merge(_, _, _, _)
unwind_merge(s, label, batch_data, k) ==
    IF k > Len(batch_data) THEN s
    ELSE unwind_merge(merge_node(s, label, get_merge_keys(label), batch_data[k]),
                      label, batch_data, k + 1)

\* the keys of a dict in insertion order: the kinds of a batch by first appearance
RECURSIVE keys_in_order(_, _, _)
keys_in_order(kinds, k, acc) ==
    IF k > Len(kinds) THEN acc
    ELSE keys_in_order(kinds, k + 1,
                       IF kinds[k] \in Range(acc) THEN acc ELSE Append(acc, kinds[k]))

\* the merge keys of a node that are None in its cypher dict
missing_keys(node) ==
    SelectSeq(get_merge_keys(node.node_type),
              LAMBDA key : get(to_cypher_dict(node.properties), key) = None)

\* what a flush reports: the store, the batches for which session.run was
\* called, and whether an exception left the method
Flushed(s, attempted, raised) == [store |-> s, attempted |-> attempted, raised |-> raised]

\* the loop over nodes_by_type from group k on; fails holds the kinds whose
\* session.run raises
RECURSIVE run_node_batches(_, _, _, _, _, _)
run_node_batches(s, kept, kinds, k, fails, attempted) ==
    IF k > Len(kinds) THEN Flushed(s, attempted, FALSE)
    ELSE LET node_type == kinds[k]
             batch_data == [i \in 1..Len(SelectSeq(kept, LAMBDA n : n.node_type = node_type)) |->
                              to_cypher_dict(SelectSeq(kept, LAMBDA n : n.node_type = node_type)[i].properties)]
         IN run_node_batches(IF node_type \in fails THEN s
                             ELSE unwind_merge(s, node_type, batch_data, 1),
                             kept, kinds, k + 1, fails, Append(attempted, node_type))

\* variant: records with a None merge key stay in their group
flush_nodes_keeps_null_keys(node_batch, s, fails) ==
    IF node_batch = << >> THEN Flushed(s, << >>, FALSE)
    ELSE LET kinds == keys_in_order([i \in 1..Len(node_batch) |-> node_batch[i].node_type], 1, << >>)
         IN run_node_batches(s, node_batch, kinds, 1, fails, << >>)

\* GraphBuilder._flush_nodes without the final clear()
flush_nodes(node_batch, s, fails) ==
    IF node_batch = << >> THEN Flushed(s, << >>, FALSE)
    ELSE LET kept == SelectSeq(node_batch, LAMBDA node : missing_keys(node) = << >>)
             kinds == keys_in_order([i \in 1..Len(kept) |-> kept[i].node_type], 1, << >>)
         IN run_node_batches(s, kept, kinds, 1, fails, << >>)

\* from_props.get("path") or from_props.get("name")
identifier(props) == IF get(props, "path") # None THEN get(props, "path") ELSE get(props, "name")

\* MATCH (a:Label) WHERE [a.repository = $repo AND] (a.path = $id OR a.name = $id)
match_endpoint(s, label, repo, id) ==
    {n \in s.nodes :
        /\ n.label = label
        /\ repo # None => get(n.props, "repository") = repo
        /\ get(n.props, "path") = id \/ get(n.props, "name") = id}

\* MERGE (a)-[r:TYPE]->(b) SET r += $rel_props, for every matched pair
RECURSIVE merge_pairs(_, _, _, _)
merge_pairs(s, pairs, type, rel_props) ==
    IF pairs = {} THEN s
    ELSE LET p == CHOOSE q \in pairs : TRUE
             matched == {r \in s.edges : r.from = p[1] /\ r.type = type /\ r.to = p[2]}
         IN merge_pairs(
                IF matched = {}
                THEN Store(s.nodes,
                           s.edges \cup {StoredEdge(s.next, p[1], type, p[2], rel_props)},
                           s.next + 1)
                ELSE Store(s.nodes,
                           {IF r \in matched
                            THEN [r EXCEPT !.props = set_plus(r.props, rel_props)] ELSE r :
                               r \in s.edges},
                           s.next),
                pairs \ {p}, type, rel_props)

\* the query of _flush_relationships for one relationship
merge_rel(s, rel) ==
    LET from_props == to_cypher_dict(rel.from_node.properties)
        to_props == to_cypher_dict(rel.to_node.properties)
        a == match_endpoint(s, rel.from_node.node_type, get(from_props, "repository"),
                            identifier(from_props))
        b == match_endpoint(s, rel.to_node.node_type, get(to_props, "repository"),
                            identifier(to_props))
    IN merge_pairs(s, {<<x.id, y.id>> : x \in a, y \in b}, rel.rel_type,
                   to_cypher_dict(rel.properties))

\* the positions of the batch in the order of the two loops: by type in order
\* of first appearance, then in batch order
RECURSIVE positions_by_type(_, _, _)
positions_by_type(rel_batch, types, k) ==
    IF k > Len(types) THEN << >>
    ELSE SelectSeq([i \in 1..Len(rel_batch) |-> i],
                   LAMBDA i : rel_batch[i].rel_type = types[k])
         \o positions_by_type(rel_batch, types, k + 1)

\* the loops of _flush_relationships from position k of order on; fails
\* holds the batch positions whose session.run raises
RECURSIVE run_rels(_, _, _, _, _, _)
run_rels(s, rel_batch, order, k, fails, attempted) ==
    IF k > Len(order) THEN Flushed(s, attempted, FALSE)
    ELSE LET rel == rel_batch[order[k]] IN
         IF identifier(to_cypher_dict(rel.from_node.properties)) = None
            \/ identifier(to_cypher_dict(rel.to_node.properties)) = None
         THEN run_rels(s, rel_batch, order, k + 1, fails, attempted)
         ELSE run_rels(IF order[k] \in fails THEN s ELSE merge_rel(s, rel),
                       rel_batch, order, k + 1, fails, Append(attempted, order[k]))

\* variant: the first exception of session.run leaves the method
flush_relationships_abort(rel_batch, s, fails) ==
    IF rel_batch = << >> THEN Flushed(s, << >>, FALSE)
    ELSE LET types == keys_in_order([i \in 1..Len(rel_batch) |-> rel_batch[i].rel_type],
                                    1, << >>)
             order == positions_by_type(rel_batch, types, 1)
             failing == {k \in 1..Len(order) : order[k] \in fails}
             first == CHOOSE k \in failing : \A j \in failing : k <= j
         IN IF failing = {} THEN run_rels(s, rel_batch, order, 1, fails, << >>)
            ELSE [run_rels(s, rel_batch, SubSeq(order, 1, first), 1, fails, << >>)
                      EXCEPT !.raised = TRUE]

\* GraphBuilder._flush_relationships without the final clear()
flush_relationships(rel_batch, s, fails) ==
    IF rel_batch = << >> THEN Flushed(s, << >>, FALSE)
    ELSE LET types == keys_in_order([i \in 1..Len(rel_batch) |-> rel_batch[i].rel_type],
                                    1, << >>)
         IN run_rels(s, rel_batch, positions_by_type(rel_batch, types, 1), 1, fails, << >>)

\* SchemaProfile: the required properties of each node kind, the source and
\* target kinds of each relationship type
SchemaProfile(nodes, relationships) == [nodes |-> nodes, relationships |-> relationships]

\* SchemaProfile.validate_node
validate_node(schema, node) ==
    /\ node.node_type \in DOMAIN schema.nodes
    /\ \A p \in schema.nodes[node.node_type] : node.properties[p] # None

\* SchemaProfile.validate_relationship
validate_relationship(schema, rel) ==
    /\ rel.rel_type \in DOMAIN schema.relationships
    /\ rel.from_node.node_type \in schema.relationships[rel.rel_type].from
    /\ rel.to_node.node_type \in schema.relationships[rel.rel_type].to

\* GraphBuilder
GraphBuilder(schema, batch_size, node_batch, rel_batch) ==
    [schema |-> schema, batch_size |-> batch_size, node_batch |-> node_batch,
     rel_batch |-> rel_batch]

\* property dictionaries of the records below
Props(repository, path, name, file_path, line) ==
    [repository |-> repository, path |-> path, name |-> name, file_path |-> file_path,
     line |-> line]
NoProps == [p \in {} |-> None]

FileA == Node("File", Props("r1", "p", None, None, None))
FileALine == Node("File", Props("r1", "p", None, None, "1"))
FileB == Node("File", Props("r2", "p", None, None, None))
FileNoRepo == Node("File", Props(None, "p", None, None, None))
FileNoPath == Node("File", Props("r1", None, None, None, None))
RoleN == Node("Role", Props(None, None, "n", None, None))
HandlerA == Node("Handler", Props("r1", None, "n", "a", None))
HandlerB == Node("Handler", Props("r1", None, "n", "b", None))

\* the records an extractor yields
NodeRecords == {FileA, FileALine, FileNoRepo, FileNoPath, RoleN, HandlerA, HandlerB}
RelRecords ==
    {Relationship("HAS_HANDLER", FileA, HandlerA, NoProps),
     Relationship("USES_ROLE", FileA, RoleN, NoProps),
     Relationship("INCLUDES", FileNoPath, FileA, NoProps)}
RepoIds == {"r1", "r2"}

\* the schema profile: required properties of the node kinds, endpoint kinds
\* of the relationship types
RelationshipKinds ==
    [HAS_HANDLER |-> [from |-> {"File", "Playbook"}, to |-> {"Handler"}],
     USES_ROLE |-> [from |-> {"File", "Playbook"}, to |-> {"Role"}],
     INCLUDES |-> [from |-> {"File"}, to |-> {"File"}],
     CONTAINS |-> [from |-> {"Directory"}, to |-> {"File", "Directory"}],
     IN_FILE |-> [from |-> {"Playbook", "Play", "Task", "Handler"}, to |-> {"File"}]]
load_schema ==
    SchemaProfile([File |-> {"path"}, Role |-> {"name"}, Handler |-> {"name"},
                   Directory |-> {"path"}],
                  RelationshipKinds)

\* the merge key of a record: its kind and the values of its merge keys
MergeKey(label, props) ==
    [kind |-> label,
     key |-> [i \in 1..Len(get_merge_keys(label)) |-> get(props, get_merge_keys(label)[i])]]

\* history of one flush
FlushReport(ran, batch, fails, flushed) ==
    [ran |-> ran, batch |-> batch, fails |-> fails, attempted |-> flushed.attempted,
     raised |-> flushed.raised]
NoFlush == FlushReport(FALSE, << >>, {}, Flushed(EmptyStore, << >>, FALSE))
Report(op, nodes, rels, repo) == [op |-> op, nodes |-> nodes, rels |-> rels, repo |-> repo]

\* expected after a record was accepted by add_node
expect(exp, node) ==
    LET props == to_cypher_dict(node.properties)
        key == MergeKey(node.node_type, props)
        old == {x \in exp : x.key = key}
    IN IF missing_keys(node) # << >> THEN exp
       ELSE (exp \ old) \cup
            {[key |-> key,
              props |-> IF old = {} THEN props
                        ELSE set_plus((CHOOSE x \in old : TRUE).props, props)]}

\* the merge keys of the records of a batch whose write failed
lost_keys(node_batch, fails) ==
    {MergeKey(node_batch[i].node_type, to_cypher_dict(node_batch[i].properties)) :
        i \in {j \in 1..Len(node_batch) : node_batch[j].node_type \in fails}}

\* a command of build_graph.py that has run
Run(op, repo_id, batch_size, confirmed, before, rerun, n) ==
    [op |-> op, repo_id |-> repo_id, batch_size |-> batch_size, confirmed |-> confirmed,
     before |-> before, rerun |-> rerun, n |-> n]
NoRun == Run("none", None, 0, FALSE, EmptyStore, FALSE, 0)
Codebase(extractor, entities, rels) ==
    [extractor |-> extractor, entities |-> entities, rels |-> rels]

CmdIdle ==
    /\ codebase = Codebase("ansible", << >>, << >>)
    /\ run = NoRun

GbIdle ==
    /\ CmdIdle
    /\ gb = GraphBuilder(load_schema, 1, << >>, << >>)
    /\ store = EmptyStore
    /\ adds = 0
    /\ expected = {}
    /\ lost = {}
    /\ emitted = {}
    /\ report = Report("init", NoFlush, NoFlush, None)

GbInit ==
    /\ now = 0
    /\ CmdIdle
    /\ gb \in {GraphBuilder(load_schema, b, << >>, << >>) : b \in 1..MaxBatch}
    /\ store = EmptyStore
    /\ adds = 0
    /\ expected = {}
    /\ lost = {}
    /\ emitted = {}
    /\ report = Report("init", NoFlush, NoFlush, None)

\* the kinds of a node batch, the positions of a relationship batch
KindsOf(node_batch) == {node_batch[i].node_type : i \in 1..Len(node_batch)}

\* graph_builder.add_node(node); fails: the kinds whose write raises if the
\* batch is flushed
AddNode(node, fails) ==
    /\ adds < MaxAdds
    /\ adds' = adds + 1
    /\ IF ~validate_node(gb.schema, node)
       THEN /\ fails = {}
            /\ report' = Report("add_node", NoFlush, NoFlush, None)
            /\ UNCHANGED <<gb, store, expected, lost>>
       ELSE LET batch == Append(gb.node_batch, node) IN
            IF Len(batch) >= gb.batch_size
            THEN /\ fails \subseteq KindsOf(batch)
                 /\ \E f \in {flush_nodes(batch, store, fails)} :
                       /\ store' = f.store
                       /\ gb' = [gb EXCEPT !.node_batch = IF f.raised THEN batch ELSE << >>]
                       /\ report' = Report("add_node", FlushReport(TRUE, batch, fails, f),
                                            NoFlush, None)
                 /\ expected' = expect(expected, node)
                 /\ lost' = lost \cup lost_keys(batch, fails)
            ELSE /\ fails = {}
                 /\ gb' = [gb EXCEPT !.node_batch = batch]
                 /\ report' = Report("add_node", NoFlush, NoFlush, None)
                 /\ expected' = expect(expected, node)
                 /\ UNCHANGED <<store, lost>>
    /\ UNCHANGED <<now, emitted, cmdVars>>
    /\ UNCHANGED nonGbVars

\* graph_builder.add_relationship(rel); fails: the batch positions whose
\* write raises if the batch is flushed
AddRelationship(rel, fails) ==
    /\ adds < MaxAdds
    /\ adds' = adds + 1
    /\ IF ~validate_relationship(gb.schema, rel)
       THEN /\ fails = {}
            /\ report' = Report("add_relationship", NoFlush, NoFlush, None)
            /\ UNCHANGED <<gb, store, emitted>>
       ELSE LET batch == Append(gb.rel_batch, rel) IN
            IF Len(batch) >= gb.batch_size
            THEN /\ fails \subseteq 1..Len(batch)
                 /\ \E f \in {flush_relationships(batch, store, fails)} :
                       /\ store' = f.store
                       /\ gb' = [gb EXCEPT !.rel_batch = IF f.raised THEN batch ELSE << >>]
                       /\ report' = Report("add_relationship", NoFlush,
                                            FlushReport(TRUE, batch, fails, f), None)
                 /\ emitted' = emitted \cup {rel}
            ELSE /\ fails = {}
                 /\ gb' = [gb EXCEPT !.rel_batch = batch]
                 /\ report' = Report("add_relationship", NoFlush, NoFlush, None)
                 /\ emitted' = emitted \cup {rel}
                 /\ UNCHANGED store
    /\ UNCHANGED <<now, expected, lost, cmdVars>>
    /\ UNCHANGED nonGbVars

\* graph_builder.flush()
Flush(node_fails, rel_fails) ==
    /\ node_fails \subseteq KindsOf(gb.node_batch)
    /\ rel_fails \subseteq 1..Len(gb.rel_batch)
    /\ \E f \in {flush_nodes(gb.node_batch, store, node_fails)} :
          IF f.raised
          THEN /\ rel_fails = {}
               /\ store' = f.store
               /\ UNCHANGED gb
               /\ report' = Report("flush", FlushReport(TRUE, gb.node_batch, node_fails, f),
                                    NoFlush, None)
          ELSE \E g \in {flush_relationships(gb.rel_batch, f.store, rel_fails)} :
               /\ store' = g.store
               /\ gb' = [gb EXCEPT !.node_batch = << >>,
                                   !.rel_batch = IF g.raised THEN gb.rel_batch ELSE << >>]
               /\ report' = Report("flush", FlushReport(TRUE, gb.node_batch, node_fails, f),
                                    FlushReport(TRUE, gb.rel_batch, rel_fails, g), None)
    /\ lost' = lost \cup lost_keys(gb.node_batch, node_fails)
    /\ UNCHANGED <<now, adds, expected, emitted, cmdVars>>
    /\ UNCHANGED nonGbVars

GbNext ==
    \/ \E node \in NodeRecords, fails \in SUBSET {"File", "Role", "Handler"} : AddNode(node, fails)
    \/ \E rel \in RelRecords, fails \in SUBSET (1..MaxBatch) : AddRelationship(rel, fails)
    \/ \E nf \in SUBSET {"File", "Role", "Handler"}, rf \in SUBSET (1..MaxBatch) : Flush(nf, rf)

(***************************************************************************)
(* The commands of build_graph.py.  Every command opens a GraphBuilder of  *)
(* its own; the store answers every write.                                 *)
(***************************************************************************)
\* a builder with the store it writes to
Working(g, s) == [gb |-> g, store |-> s]

\* GraphBuilder.add_node
add_node(w, node) ==
    IF ~validate_node(w.gb.schema, node) THEN w
    ELSE LET batch == Append(w.gb.node_batch, node) IN
         IF Len(batch) >= w.gb.batch_size
         THEN Working([w.gb EXCEPT !.node_batch = << >>], flush_nodes(batch, w.store, {}).store)
         ELSE Working([w.gb EXCEPT !.node_batch = batch], w.store)

\* GraphBuilder.add_relationship
add_relationship(w, rel) ==
    IF ~validate_relationship(w.gb.schema, rel) THEN w
    ELSE LET batch == Append(w.gb.rel_batch, rel) IN
         IF Len(batch) >= w.gb.batch_size
         THEN Working([w.gb EXCEPT !.rel_batch = << >>],
                      flush_relationships(batch, w.store, {}).store)
         ELSE Working([w.gb EXCEPT !.rel_batch = batch], w.store)

\* GraphBuilder.flush
flush(w) ==
    LET s == flush_nodes(w.gb.node_batch, w.store, {}).store IN
    Working([w.gb EXCEPT !.node_batch = << >>, !.rel_batch = << >>],
            flush_relationships(w.gb.rel_batch, s, {}).store)

\* NodeCollector.add_node: the repository is set on every node but a Role
inject(node, repository_id) ==
    IF node.node_type # "Role"
    THEN [node EXCEPT !.properties.repository = repository_id]
    ELSE node

\* the two loops of build over what the extractor yields, then __exit__
RECURSIVE add_entities(_, _, _, _)
add_entities(w, entities, repo_id, k) ==
    IF k > Len(entities) THEN w
    ELSE add_entities(add_node(w, inject(entities[k], repo_id)), entities, repo_id, k + 1)

\* an endpoint of a relationship as extract_relationships yields it: the
\* ansible extractor yields the node that went through the collector, the
\* generic extractor yields the path alone
endpoint(extractor, node, repository_id) ==
    IF extractor = "ansible"
    THEN inject(node, repository_id)
    ELSE Node(node.node_type, Props(None, node.properties.path, None, None, None))

RECURSIVE add_relationships(_, _, _, _, _)
add_relationships(w, rels, extractor, repo_id, k) ==
    IF k > Len(rels) THEN w
    ELSE add_relationships(
             add_relationship(w, Relationship(rels[k].rel_type,
                                              endpoint(extractor, rels[k].from_node, repo_id),
                                              endpoint(extractor, rels[k].to_node, repo_id),
                                              rels[k].properties)),
             rels, extractor, repo_id, k + 1)

\* build from the extraction on
build(s, cb, repo_id, batch_size) ==
    flush(add_relationships(
              add_entities(Working(GraphBuilder(load_schema, batch_size, << >>, << >>), s),
                           cb.entities, repo_id, 1),
              cb.rels, cb.extractor, repo_id, 1)).store

\* variant: every node with a repository is deleted
detach_delete_every_repo(s, repo) ==
    LET deleted == {n.id : n \in {m \in s.nodes :
                                    get(m.props, "repository") # None /\ m.label # "Role"}}
    IN Store({n \in s.nodes : n.id \notin deleted},
             {r \in s.edges : r.from \notin deleted /\ r.to \notin deleted},
             s.next)

\* MATCH (n) WHERE n.repository = $repo AND NOT n:Role DETACH DELETE n
detach_delete(s, repo) ==
    LET deleted == {n.id : n \in {m \in s.nodes :
                                    get(m.props, "repository") = repo /\ m.label # "Role"}}
    IN Store({n \in s.nodes : n.id \notin deleted},
             {r \in s.edges : r.from \notin deleted /\ r.to \notin deleted},
             s.next)

\* what the extractors yield
EntityRecords == {FileA, RoleN}
EdgeRecords ==
    {Relationship("USES_ROLE", FileA, RoleN, NoProps),
     Relationship("INCLUDES", FileA, FileA, NoProps)}
\* what the generic extractor yields: directories, files and containment
DirD == Node("Directory", Props("r1", "d", None, None, None))
TreeRecords == {DirD, FileA}
ContainsRecords == {Relationship("CONTAINS", DirD, FileA, NoProps)}
\* a play of a playbook file p, as far as the handler n is concerned: a task
\* of the play notifies n, the handlers section of the play defines n (as
\* its second handler, with the module service)
Play(notifies, defines) == [notifies |-> notifies, defines |-> defines]
Playbooks == SeqsOf({Play(nt, df) : nt, df \in BOOLEAN}, 1, MaxPlays)

\* PlaybookExtractor._extract_task: the placeholder of a notified handler
Placeholder ==
    Node("Handler", [module |-> "unknown", line_number |-> "0"]
                        @@ Props(None, None, "n", "p", None))
\* PlaybookExtractor._extract_handler: the node of a handler definition
Definition ==
    Node("Handler", [module |-> "service", line_number |-> "1"]
                        @@ Props(None, None, "n", "p", None))

\* PlaybookExtractor._extract_play: the tasks, then the handlers.  The
\* Playbook, Play and Task nodes and their edges have other kinds and are
\* left out.
extract_play(play) ==
    [nodes |-> (IF play.notifies THEN <<Placeholder>> ELSE << >>)
                   \o (IF play.defines THEN <<Definition>> ELSE << >>),
     rels |-> IF play.defines
              THEN <<Relationship("IN_FILE", Definition, FileA, NoProps)>>
              ELSE << >>]

\* PlaybookExtractor.extract after the File node of _process_file: play by play
RECURSIVE extract_plays(_, _, _)
extract_plays(plays, k, cb) ==
    IF k > Len(plays) THEN cb
    ELSE extract_plays(plays, k + 1,
                       Codebase(cb.extractor,
                                cb.entities \o extract_play(plays[k]).nodes,
                                cb.rels \o extract_play(plays[k]).rels))

Codebases ==
    {Codebase("ansible", en, rl) : en \in SeqsOf(EntityRecords, 1, MaxEntities),
                                   rl \in SeqsOf(EdgeRecords, 0, MaxEdges)}
    \cup {Codebase("generic", en, rl) : en \in SeqsOf(TreeRecords, 1, MaxEntities),
                                        rl \in SeqsOf(ContainsRecords, 0, MaxEdges)}
    \cup {extract_plays(plays, 1, Codebase("ansible", <<FileA>>, << >>)) :
              plays \in Playbooks}

CmdInit ==
    /\ now = 0
    /\ codebase \in Codebases
    /\ run = NoRun
    /\ gb = GraphBuilder(load_schema, 1, << >>, << >>)
    /\ store = EmptyStore
    /\ adds = 0
    /\ expected = {}
    /\ lost = {}
    /\ emitted = {}
    /\ report = Report("init", NoFlush, NoFlush, None)

\* the build command for repository repo_id
Build(repo_id, batch_size) ==
    /\ run.n < MaxRuns
    /\ store' = build(store, codebase, repo_id, batch_size)
    /\ run' = Run("build", repo_id, batch_size, FALSE, store,
                  run.op = "build" /\ run.repo_id = repo_id, run.n + 1)
    /\ UNCHANGED <<now, codebase, gb, gbHistory>>
    /\ UNCHANGED nonGbVars

\* the clear-repo command; confirm is the answer to its prompt
ClearRepo(repo_id, confirm) ==
    /\ run.n < MaxRuns
    /\ LET count == Cardinality({n \in store.nodes :
                         get(n.props, "repository") = repo_id /\ n.label # "Role"})
       IN store' = IF count = 0 \/ ~confirm THEN store ELSE detach_delete(store, repo_id)
    /\ run' = Run("clear_repo", repo_id, 0, confirm, store, FALSE, run.n + 1)
    /\ UNCHANGED <<now, codebase, gb, gbHistory>>
    /\ UNCHANGED nonGbVars

CmdNext ==
    \/ \E repo_id \in RepoIds, batch_size \in 1..MaxBatch : Build(repo_id, batch_size)
    \/ \E repo_id \in RepoIds, confirm \in BOOLEAN : ClearRepo(repo_id, confirm)

(***************************************************************************)
(* Calls of the deterministic tools through call_tool.  The session        *)
(* repository and the configured codebase root are inputs of each call.    *)
(***************************************************************************)
Repos == {NoRepo, "r1"}
ToolNames == {"copy"}

\* raised is the exception the handler has caught ("" when none)
ToolCall(name, arg, pc, plan, executed, raised, output) ==
    [name |-> name, arg |-> arg, pc |-> pc, plan |-> plan, executed |-> executed,
     raised |-> raised, output |-> output]
NoPlan == Plan(FALSE, NotChecked, << >>, Params(NoPath, "", NoRepo))
IdleTool == ToolCall("", NoPath, "idle", NoPlan, << >>, "", NoText)
\* str(e) of a PathSanitizationError, as returned by the except clauses
SanitizerText(e) == TextContent("error", <<e.message>>, "", << >>)

\* conn.execute_query(query, params) up to the await inside
\* execute_with_timeout: the breaker, whether the store is asked, the text
\* returned if it is not
execute_query(tc, b, t) ==
    LET k == Len(tc.executed) + 1
        sent == Append(tc.executed, [query |-> tc.plan.queries[k],
                                       params |-> tc.plan.params])
    IN IF ~allow_request(b, t)
       THEN [tc |-> [tc EXCEPT !.pc = "done", !.executed = sent,
                            !.raised = "CircuitOpenError", !.output = ErrorText],
             breaker |-> state(b, t)]
       ELSE [tc |-> [tc EXCEPT !.pc = "neo4j", !.executed = sent],
             breaker |-> state(b, t)]

\* a tool handler from its entry to its first await or to its return
begin_tool(name, arg, plan, b, t) ==
    LET tc == ToolCall(name, arg, "running", plan, << >>, "", NoText) IN
    IF plan.checked /\ plan.safe.raised # ""
    THEN [tc |-> [tc EXCEPT !.pc = "done", !.raised = plan.safe.raised,
                            !.output = SanitizerText(plan.safe)],
          breaker |-> b]
    ELSE execute_query(tc, b, t)

ToolIdle == tool = IdleTool

ToolInit ==
    /\ now = 0
    /\ ToolIdle
    /\ neo4j_query_breaker = CircuitBreaker("neo4j_query", 5, 60)
    /\ cypher_generation_breaker = CircuitBreaker("cypher_generation", 3, 30)
    /\ qc = [i \in Invocations |-> IdleInvocation]

BeginTool(name, arg, plan) ==
    /\ tool.pc = "idle"
    /\ \E r \in {begin_tool(name, arg, plan, neo4j_query_breaker, now)} :
          /\ tool' = r.tc
          /\ neo4j_query_breaker' = r.breaker
    /\ UNCHANGED now
    /\ UNCHANGED nonToolVars

FindDependencies(file_path, repo, codebase_root) ==
    BeginTool("find_dependencies", file_path,
              find_dependencies(file_path, repo, codebase_root))

AnalyzePlaybook(playbook_path, repo, codebase_root) ==
    BeginTool("analyze_playbook", playbook_path,
              analyze_playbook(playbook_path, repo, codebase_root))

FindTasksByModule(module_name, repo) ==
    BeginTool("find_tasks_by_module", NoPath, find_tasks_by_module(module_name, repo))

GetTaskHierarchy(playbook_path, repo, codebase_root) ==
    BeginTool("get_task_hierarchy", playbook_path,
              get_task_hierarchy(playbook_path, repo, codebase_root))

FindTemplateUsage(template_path, repo, codebase_root) ==
    BeginTool("find_template_usage", template_path,
              find_template_usage(template_path, repo, codebase_root))

TraceVariable(variable_name, repo) ==
    BeginTool("trace_variable", NoPath, trace_variable(variable_name, repo))

GetRoleUsage(role_name, repo) ==
    BeginTool("get_role_usage", NoPath, get_role_usage(role_name, repo))

\* the store returns the rows of the query in flight; the handler passes on
\* its next query, or formats and returns
ToolRows ==
    /\ tool.pc = "neo4j"
    /\ IF Len(tool.executed) < Len(tool.plan.queries)
       THEN \E r \in {execute_query(tool, record_success(neo4j_query_breaker), now)} :
              /\ tool' = r.tc
              /\ neo4j_query_breaker' = r.breaker
       ELSE /\ tool' = [tool EXCEPT !.pc = "done", !.output = ResultsText]
            /\ neo4j_query_breaker' = record_success(neo4j_query_breaker)
    /\ UNCHANGED now
    /\ UNCHANGED nonToolVars

\* the query in flight exceeds its deadline: asyncio.timeout expires,
\* execute_with_timeout raises QueryTimeoutError, the handler's
\* except Exception returns "Error: " and the exception's text
ToolTimeout ==
    /\ tool.pc = "neo4j"
    /\ neo4j_query_breaker' = record_failure(neo4j_query_breaker, now)
    /\ tool' = [tool EXCEPT !.pc = "done", !.raised = "QueryTimeoutError",
                            !.output = ErrorText]
    /\ UNCHANGED now
    /\ UNCHANGED nonToolVars

\* the query in flight raises anything else: except Exception
ToolQueryFailed ==
    /\ tool.pc = "neo4j"
    /\ neo4j_query_breaker' = record_failure(neo4j_query_breaker, now)
    /\ tool' = [tool EXCEPT !.pc = "done", !.raised = "Exception", !.output = ErrorText]
    /\ UNCHANGED now
    /\ UNCHANGED nonToolVars

\* call_tool hands the text to the client
ToolReturn ==
    /\ tool.pc = "done"
    /\ tool' = IdleTool
    /\ UNCHANGED <<now, neo4j_query_breaker>>
    /\ UNCHANGED nonToolVars

ToolNext ==
    \/ \E p \in ToolPaths, r \in Repos, c \in CodebasePaths : FindDependencies(p, r, c)
    \/ \E p \in ToolPaths, r \in Repos, c \in CodebasePaths : AnalyzePlaybook(p, r, c)
    \/ \E n \in ToolNames, r \in Repos : FindTasksByModule(n, r)
    \/ \E p \in ToolPaths, r \in Repos, c \in CodebasePaths : GetTaskHierarchy(p, r, c)
    \/ \E p \in ToolPaths, r \in Repos, c \in CodebasePaths : FindTemplateUsage(p, r, c)
    \/ \E n \in ToolNames, r \in Repos : TraceVariable(n, r)
    \/ \E n \in ToolNames, r \in Repos : GetRoleUsage(n, r)
    \/ ToolRows
    \/ ToolTimeout
    \/ ToolQueryFailed
    \/ ToolReturn

(***************************************************************************)
(* The session repository.  _session_repo is a context variable: a task    *)
(* reads and writes the copy of the context it was created with.  Each SSE *)
(* channel is served by a task running mcp_app.run, created from the       *)
(* server's context; the MCP session runs the handler of a request either  *)
(* in that task or in a task of its own created from it.                   *)
(***************************************************************************)
Channels == 1..MaxChannels
Dispatch == {"inline", "task"}

ServerContext == 0
ChannelContext(c) == c
TaskContext(c) == MaxChannels + c
ContextIds == 0..(2 * MaxChannels)

\* ContextVar("mcp_repo", default=None)
session_repo == [k \in ContextIds |-> None]
\* a task is created: its context is a copy of the creating one
copy_context(ctxs, from, to) == [ctxs EXCEPT ![to] = ctxs[from]]

\* variant: the repository is a module global
set_repository_global(ctxs, k, repo_id) == [j \in DOMAIN ctxs |-> repo_id]

set_repository(ctxs, k, repo_id) == [ctxs EXCEPT ![k] = repo_id]

get_repository(ctxs, k) == ctxs[k]

\* a or b
or(a, b) == IF a = None \/ a = "" THEN b ELSE a

\* arguments of a tool call: the repository_id entry (None when absent)
SetArguments == RepoIds
QueryArguments == {"", "r2"}
NotResolved == "-"

\* call_tool and the handler it awaits, up to where the handler has
\* resolved its repository: the contexts after it and the repository
call_tool(name, repository_id, ctxs, k) ==
    IF name = "set_repository_context"
    THEN [contexts |-> set_repository(ctxs, k, repository_id), repo |-> NotResolved]
    ELSE IF name = "query_codebase"
    THEN [contexts |-> ctxs, repo |-> or(repository_id, get_repository(ctxs, k))]
    ELSE [contexts |-> ctxs, repo |-> or(None, get_repository(ctxs, k))]

\* the request a channel has received and not yet handled
Rpc(pc, name, repository_id) ==
    [pc |-> pc, name |-> name, repository_id |-> repository_id]
FreeRpc == Rpc("free", "", None)

\* history: whether the invocation handled last took its repository from
\* the session, the repository it resolved, the repository last set on its
\* channel by then, and whether another open channel had another
\* repository set then
Resolved(from_session, repo, last_set, crossed) ==
    [from_session |-> from_session, repo |-> repo, expect |-> last_set,
     crossed |-> crossed]
NoneResolved == Resolved(FALSE, NotResolved, None, FALSE)

\* the context the handler of the request of channel c runs in
running(c) == IF dispatch = "inline" THEN ChannelContext(c) ELSE TaskContext(c)

SessIdle ==
    /\ dispatch = "task"
    /\ channel = [c \in Channels |-> FALSE]
    /\ contexts = session_repo
    /\ rpc = [c \in Channels |-> FreeRpc]
    /\ resolved = NoneResolved
    /\ ctxHistory = [c \in Channels |-> None]

SessInit ==
    /\ now = 0
    /\ dispatch \in Dispatch
    /\ channel = [c \in Channels |-> FALSE]
    /\ contexts = session_repo
    /\ rpc = [c \in Channels |-> FreeRpc]
    /\ resolved = NoneResolved
    /\ ctxHistory = [c \in Channels |-> None]

\* GET /sse: _handle_sse is entered in a task created by the server
HandleSse(c) ==
    /\ ~channel[c]
    /\ channel' = [channel EXCEPT ![c] = TRUE]
    /\ contexts' = copy_context(contexts, ServerContext, ChannelContext(c))
    /\ UNCHANGED <<now, dispatch, rpc, resolved, ctxHistory>>
    /\ UNCHANGED nonSessVars

\* the channel closes: mcp_app.run ends and its request task is cancelled;
\* the contexts of ended tasks are gone
CloseSse(c) ==
    /\ channel[c]
    /\ channel' = [channel EXCEPT ![c] = FALSE]
    /\ rpc' = [rpc EXCEPT ![c] = FreeRpc]
    /\ contexts' = [contexts EXCEPT ![ChannelContext(c)] = None, ![TaskContext(c)] = None]
    /\ ctxHistory' = [ctxHistory EXCEPT ![c] = None]
    /\ UNCHANGED <<now, dispatch, resolved>>
    /\ UNCHANGED nonSessVars

\* POST /messages: _handle_messages passes a tools/call request to the
\* session of channel c
HandleMessages(c, name, repository_id) ==
    /\ channel[c]
    /\ rpc[c].pc = "free"
    /\ rpc' = [rpc EXCEPT ![c] = Rpc("pending", name, repository_id)]
    /\ contexts' = IF dispatch = "task"
                   THEN copy_context(contexts, ChannelContext(c), TaskContext(c))
                   ELSE contexts
    /\ UNCHANGED <<now, dispatch, channel, resolved, ctxHistory>>
    /\ UNCHANGED nonSessVars

\* the handler of the request of channel c runs to its return; in a task of
\* its own, the task ends and its context is gone
CallTool(c) ==
    /\ rpc[c].pc = "pending"
    /\ LET r == call_tool(rpc[c].name, rpc[c].repository_id, contexts, running(c))
       IN /\ contexts' = [r.contexts EXCEPT ![TaskContext(c)] = None]
          /\ resolved' =
                IF r.repo = NotResolved \/ rpc[c].repository_id \notin {None, ""}
                THEN NoneResolved
                ELSE Resolved(TRUE, r.repo, ctxHistory[c],
                              \E d \in Channels :
                                  /\ d # c
                                  /\ channel[d]
                                  /\ ctxHistory[d] \notin {None, ctxHistory[c]})
    /\ rpc' = [rpc EXCEPT ![c] = FreeRpc]
    /\ ctxHistory' = IF rpc[c].name = "set_repository_context"
                     THEN [ctxHistory EXCEPT ![c] = rpc[c].repository_id]
                     ELSE ctxHistory
    /\ UNCHANGED <<now, dispatch, channel>>
    /\ UNCHANGED nonSessVars

SessNext ==
    \/ \E c \in Channels : HandleSse(c)
    \/ \E c \in Channels : CloseSse(c)
    \/ \E c \in Channels, r \in SetArguments : HandleMessages(c, "set_repository_context", r)
    \/ \E c \in Channels, r \in QueryArguments : HandleMessages(c, "query_codebase", r)
    \/ \E c \in Channels : HandleMessages(c, "find_dependencies", None)
    \/ \E c \in Channels : CallTool(c)

(***************************************************************************)
(* Specifications.                                                         *)
(***************************************************************************)
Init == CbInit /\ RlIdle /\ HttpIdle /\ QcIdle /\ FnIdle /\ ToolIdle /\ GbIdle /\ SessIdle
Next == CbNext
\* the circuit breaker under direct calls and concurrent wrapped calls
Spec == Init /\ [][Next]_vars

\* the breaker used only through with_circuit_breaker: concurrent wrapped calls
InitWrapped == Init
NextWrapped ==
    \/ Tick
    \/ \E t \in Tasks : WrapperEnter(t)
    \/ \E t \in Tasks : WrapperReturn(t)
    \/ \E t \in Tasks : WrapperRaise(t)
SpecWrapped == InitWrapped /\ [][NextWrapped]_vars

\* the rate limiter under calls of several clients
InitLimiter == RlInit /\ CbIdle /\ HttpIdle /\ QcIdle /\ FnIdle /\ ToolIdle /\ GbIdle /\ SessIdle
NextLimiter == RlNext
SpecLimiter == InitLimiter /\ [][NextLimiter]_vars

\* the ASGI front with the process-wide limiter
InitHttp == HttpInit /\ CbIdle /\ QcIdle /\ FnIdle /\ ToolIdle /\ GbIdle /\ SessIdle
NextHttp == HttpNext
SpecHttp == InitHttp /\ [][NextHttp]_vars

\* query_codebase invocations with the two global breakers
InitQuery == QcInit /\ CbIdle /\ RlIdle /\ HttpIdle /\ FnIdle /\ ToolIdle /\ GbIdle /\ SessIdle
NextQuery == QcNext
SpecQuery == InitQuery /\ [][NextQuery]_vars

\* the same, with the deadlines that are set: asyncio.timeout around the
\* query in execute_with_timeout, and the timeout of the LLM's HTTP client
QueryDeadlines ==
    \A i \in Invocations : WF_vars(QcTimeout(i)) /\ WF_vars(QcGenerationFailed(i))
InitQueryLive == InitQuery
NextQueryLive == QcNext
SpecQueryLive == InitQueryLive /\ [][NextQueryLive]_vars /\ QueryDeadlines

\* the pure functions on bounded arguments
InitFunctions == FnInit /\ CbIdle /\ RlIdle /\ HttpIdle /\ QcIdle /\ ToolIdle /\ GbIdle /\ SessIdle
NextFunctions == FnNext
SpecFunctions == InitFunctions /\ [][NextFunctions]_vars

\* calls of the deterministic tools with the neo4j breaker
InitTools == ToolInit /\ CbIdle /\ RlIdle /\ HttpIdle /\ FnIdle /\ GbIdle /\ SessIdle
NextTools ==
    \/ FnIdle /\ ToolNext
    \/ ToolIdle /\ PathNext
SpecTools == InitTools /\ [][NextTools]_vars

\* a graph builder and the store
InitBuilder == GbInit /\ CbIdle /\ RlIdle /\ HttpIdle /\ QcIdle /\ FnIdle /\ ToolIdle /\ SessIdle
NextBuilder == GbNext
SpecBuilder == InitBuilder /\ [][NextBuilder]_vars

\* the commands of build_graph.py on the store
InitCommands == CmdInit /\ CbIdle /\ RlIdle /\ HttpIdle /\ QcIdle /\ FnIdle /\ ToolIdle /\ SessIdle
NextCommands == CmdNext
SpecCommands == InitCommands /\ [][NextCommands]_vars

\* tool invocations on SSE channels and the session repository
InitSession == SessInit /\ CbIdle /\ RlIdle /\ HttpIdle /\ QcIdle /\ FnIdle /\ ToolIdle /\ GbIdle
NextSession == SessNext
SpecSession == InitSession /\ [][NextSession]_vars

(***************************************************************************)
(* Circuit breaker claims.                                                 *)
(***************************************************************************)
Elapsed(t0) == now - t0

\* C1: while fewer than failure_threshold failures have been recorded since
\* the last record_success the breaker is CLOSED and allow_request() is true;
\* right after the record_failure that makes it failure_threshold the
\* breaker is OPEN and allow_request() is false.
C1_OpensAtThreshold ==
    /\ consecutive < breaker.failure_threshold =>
          breaker.state = CLOSED /\ allow_request(breaker, now)
    /\ (last.op = "record_failure" /\ consecutive = breaker.failure_threshold) =>
          breaker.state = OPEN /\ ~allow_request(breaker, now)

C1_Witness ==
    /\ breaker.failure_threshold = 2
    /\ last.op = "record_failure"
    /\ consecutive = 2
    /\ last.before.state = CLOSED
    /\ breaker.state = OPEN

\* C2: in HALF_OPEN, record_success closes the breaker with the failure
\* count at 0 and requests are admitted; record_failure reopens it and
\* requests are refused until recovery_timeout has elapsed again.
C2_HalfOpenOutcome ==
    /\ (last.op = "record_success" /\ last.before.state = HALF_OPEN) =>
          /\ breaker.state = CLOSED
          /\ breaker.failure_count = 0
          /\ allow_request(breaker, now)
    /\ (last.op = "record_failure" /\ last.before.state = HALF_OPEN) =>
          /\ breaker.state = OPEN
          /\ \A d \in 0..(breaker.recovery_timeout - 1) :
                ~allow_request(breaker, now + d)
          /\ allow_request(breaker, now + breaker.recovery_timeout)

C2_Witness ==
    /\ last.op = "record_success"
    /\ last.before.state = HALF_OPEN
    /\ last.before.failure_count >= breaker.failure_threshold
    /\ breaker.state = CLOSED

\* C3: the breaker never steps from CLOSED to HALF_OPEN; it steps from OPEN
\* to HALF_OPEN only when recovery_timeout has elapsed since the most
\* recently recorded failure, and until then allow_request() is false.
C3_HalfOpenOnlyAfterTimeout ==
    /\ last.before.state = CLOSED => breaker.state # HALF_OPEN
    /\ (last.before.state = OPEN /\ breaker.state = HALF_OPEN) =>
          lastRecorded # NoTime /\ Elapsed(lastRecorded) >= breaker.recovery_timeout
    /\ (breaker.state = OPEN /\ Elapsed(lastRecorded) < breaker.recovery_timeout) =>
          ~allow_request(breaker, now)

\* a failure recorded while OPEN has postponed the move to HALF_OPEN
C3_Witness ==
    /\ last.before.state = OPEN
    /\ breaker.state = HALF_OPEN
    /\ breaker.failure_count > breaker.failure_threshold
    /\ Elapsed(lastRecorded) = breaker.recovery_timeout

\* C4: at most one call admitted in HALF_OPEN is inside the protected
\* function at any time (a single probe).
C4_SingleProbe ==
    Cardinality({t \in Tasks :
        calls[t].pc = "running" /\ calls[t].admitted_in = HALF_OPEN}) <= 1

\* C5: a wrapped call made while the breaker is OPEN and recovery_timeout
\* has not elapsed raises CircuitOpenError with the circuit name and the
\* configured suggested tools, does not invoke the function and leaves the
\* breaker as it was.
C5_RefusedCall ==
    (/\ last.op = "wrapper"
     /\ last.before.state = OPEN
     /\ Elapsed(last.before.last_failure_time) < last.before.recovery_timeout) =>
        /\ calls[last.task].pc = "idle"
        /\ last.raised.type = "CircuitOpenError"
        /\ last.raised.circuit_name = breaker.name
        /\ last.raised.suggested_tools =
              (IF suggested.none THEN << >> ELSE suggested.tools)
        /\ ~last.invoked
        /\ breaker = last.before

C5_Witness ==
    /\ last.op = "wrapper"
    /\ last.before.state = OPEN
    /\ Elapsed(last.before.last_failure_time) < last.before.recovery_timeout
    /\ last.raised.suggested_tools = <<"tool1", "tool2">>

(***************************************************************************)
(* Rate limiter claims (SpecLimiter).                                      *)
(***************************************************************************)
\* the four transitions of the state machine
Transitions ==
    {<<CLOSED, OPEN>>, <<OPEN, HALF_OPEN>>, <<HALF_OPEN, CLOSED>>, <<HALF_OPEN, OPEN>>}

\* C29: under concurrent calls through with_circuit_breaker every change of
\* the breaker's state is one of the four transitions; in particular no
\* step takes it from OPEN to CLOSED, also when a call admitted while CLOSED
\* succeeds after other calls have opened the circuit.
C29_OnlyFourTransitions ==
    [][breaker'.state # breaker.state
           => <<breaker.state, breaker'.state>> \in Transitions]_vars

\* C6: a client whose first request is at the current instant has had
\* min(k, burst_size) of its k allow() calls admitted: the first burst_size
\* are admitted and the next one is refused.
C6_BurstThenRefuse ==
    \A c \in Clients :
        fresh[c] => admits[c][0] = Min(callsNow[c], limiter.burst_size)

C6_Witness ==
    \E c \in Clients :
        /\ fresh[c]
        /\ limiter.burst_size = 2
        /\ callsNow[c] = 3
        /\ admits[c][0] = 2
        /\ rlLast.op = "allow" /\ rlLast.client = c /\ rlLast.ret = FALSE

\* admitted requests of client c in the 60 seconds up to now
RECURSIVE SumUpTo(_, _)
SumUpTo(f, n) == IF n < 0 THEN 0 ELSE f[n] + SumUpTo(f, n - 1)

AdmittedInWindow(c) == SumUpTo(admits[c], TicksPerMinute)

\* C7: in every window of 60 seconds a client has at most
\* requests_per_minute + burst_size requests admitted.
C7_WindowBound ==
    \A c \in Clients :
        AdmittedInWindow(c) <= limiter.requests_per_minute + limiter.burst_size

\* the bound is met: a full burst, then a minute of refill used up
C7_Witness ==
    \E c, d \in Clients :
        /\ c # d
        /\ AdmittedInWindow(c) = limiter.requests_per_minute + limiter.burst_size
        /\ admits[c][TicksPerMinute] = limiter.burst_size
        /\ AdmittedInWindow(d) > 0

\* the bucket of the client just served is exhausted and it has been idle
\* for at least 60 / requests_per_minute seconds
ExhaustedAndIdle(c) ==
    /\ c \in DOMAIN limiter.buckets
    /\ limiter.buckets[c] < Token
    /\ (now - limiter.last_update[c]) * limiter.requests_per_minute >= TicksPerMinute

\* C8: an allow() of a client with an exhausted bucket that has been idle
\* for 60 / requests_per_minute seconds is admitted; after every refill the
\* bucket holds what accrual at requests_per_minute / 60 per second, capped
\* at burst_size, gives, a refused request having consumed nothing.
C8_RefillAdmits ==
    /\ [][\A c \in Clients :
            (rlLast'.op = "allow" /\ rlLast'.client = c /\ ExhaustedAndIdle(c))
                => rlLast'.ret = TRUE]_vars
    /\ [](rlLast.op \in {"allow", "get_remaining"} =>
            /\ limiter.buckets[rlLast.client] = ideal[rlLast.client]
            /\ limiter.buckets[rlLast.client] <= limiter.burst_size * Token)

\* a burst emptied the bucket 60 / requests_per_minute seconds ago, nothing
\* was admitted since, and the request made now is admitted
C8_Witness ==
    \E c \in Clients, k \in 1..TicksPerMinute :
        /\ k * limiter.requests_per_minute = TicksPerMinute
        /\ rlLast = RlStep("allow", c, TRUE)
        /\ callsNow[c] = 1
        /\ admits[c][k] = limiter.burst_size
        /\ \A j \in 0..(k - 1) : admits[c][j] = (IF j = 0 THEN 1 ELSE 0)
        /\ limiter.buckets[c] = 0

(***************************************************************************)
(* ASGI front claims (SpecHttp).                                           *)
(***************************************************************************)
\* the bucket of the caller holds less than one token at the time of the request
BucketEmpty(l, c, t) == refill(l, c, t).buckets[c] < Token

\* C9: every tool invocation posted to /messages goes through the rate
\* limit check, and one posted by a client whose bucket is empty is
\* answered 429 with Retry-After and runs no tool.
C9_MessagesRateLimited ==
    [][(response'.scope.type = "http" /\ response'.scope.path = "/messages"
          /\ response'.scope.method = "POST" /\ now' = now)
        => /\ response'.tool_dispatched => response'.rate_checked
           /\ BucketEmpty(limiter, response'.client, now) =>
                  /\ response'.status = 429
                  /\ response'.headers.retry_after >= 1
                  /\ ~response'.tool_dispatched]_vars

(***************************************************************************)
(* query_codebase claims (SpecQuery).                                      *)
(***************************************************************************)
\* the invocation has a translated query and the validator rejects it
Rejected(i) ==
    /\ qc[i].cypher # NoQuery
    /\ ~validate(qc[i].schema, qc[i].cypher).is_valid

\* C10: once the validator has reported the translated query of an
\* invocation invalid, that invocation has made no call of execute_query
\* and has returned the rejection text listing the validator's errors.
C10_InvalidNeverExecuted ==
    \A i \in Invocations :
        qc[i].cypher # NoQuery =>
            \A v \in {validate(qc[i].schema, qc[i].cypher)} :
                ~v.is_valid =>
                    /\ qc[i].executed = << >>
                    /\ qc[i].pc = "done"
                    /\ qc[i].output.kind = "invalid"
                    /\ qc[i].output.errors = v.errors
                    /\ Len(qc[i].output.errors) >= 1

C10_Witness ==
    \E i \in Invocations :
        /\ Rejected(i)
        /\ Len(qc[i].output.errors) >= 2
        /\ qc[i].output.errors[1].kind = "Forbidden"
        /\ neo4j_query_breaker.state = CLOSED

\* C24: whenever a breaker refuses a call made by a query_codebase
\* invocation, the text the invocation returns lists the deterministic
\* fallback tools.
C24_RefusalListsFallbackTools ==
    \A i \in Invocations :
        (qc[i].pc = "done" /\ qc[i].output.kind = "circuit_open") =>
            qc[i].output.tools = DETERMINISTIC_TOOLS

\* the invocation is waiting for the store or for the LLM
Waiting(i) == qc[i].pc \in {"schema", "llm", "neo4j"}

\* C25: every query_codebase invocation that waits for the live-schema
\* introspection, for the LLM or for the store query returns to its caller,
\* also when the store or the LLM never answers.
C25_EveryInvocationReturns ==
    \A i \in Invocations : Waiting(i) ~> (qc[i].pc = "done")

\* C26: while the neo4j_query breaker is OPEN and its recovery_timeout has
\* not elapsed, no query_codebase invocation sends a query to the store,
\* the live-schema introspection included.
C26_NoStoreAccessWhileOpen ==
    [][\A i \in Invocations :
          (/\ neo4j_query_breaker.state = OPEN
           /\ now - neo4j_query_breaker.last_failure_time
                 < neo4j_query_breaker.recovery_timeout
           /\ ~Waiting(i))
          => qc'[i].pc \notin {"schema", "neo4j"}]_vars

(***************************************************************************)
(* Validator and row cap claims (SpecFunctions).                           *)
(***************************************************************************)
\* what a query does and names, read off the query itself
Mutates(query) ==
    \E i \in 1..Len(query.words) :
        query.words[i] \in {"CREATE", "MERGE", "SET", "REMOVE", "DELETE"}
Ddl(query) ==
    \E i \in 1..Len(query.words) : query.words[i] \in {"DROP", "INDEX", "CONSTRAINT"}
CallsProcedure(query) ==
    \E i \in 1..(Len(query.words) - 1) :
        query.words[i] = "CALL" /\ query.words[i + 1] \in {"db.", "dbms.", "apoc."}
KindsUsed(query) ==
    UNION {{query.nodes[i].labels[j] : j \in 1..Len(query.nodes[i].labels)} :
           i \in 1..Len(query.nodes)}
EdgesUsed(query) ==
    UNION {{query.rels[i].types[j] : j \in 1..Len(query.rels[i].types)} :
           i \in 1..Len(query.rels)}

\* C11: every query the validator accepts contains no mutation, no DDL and
\* no administrative or extension procedure call, and every node kind and
\* edge kind it uses is in the schema given to the validator, whatever the
\* form of its patterns.
C11_AcceptedIsReadOnlyAndDeclared ==
    (fcall.fn = "validate" /\ fcall.result.is_valid) =>
        LET schema == fcall.args[1]
            query == fcall.args[2]
        IN /\ ~Mutates(query)
           /\ ~Ddl(query)
           /\ ~CallsProcedure(query)
           /\ KindsUsed(query) \subseteq schema.node_labels
           /\ EdgesUsed(query) \subseteq schema.relationship_types

\* C13: enforce_limit(q, max_results) is: for q without a LIMIT, q with its
\* trailing whitespace and ';' removed and LIMIT min(max_results, 1000)
\* appended; for q with a LIMIT above 1000, q with every such LIMIT set to
\* 1000; for q whose LIMITs are all at most 1000, q itself.
C13_EnforceLimitReference ==
    fcall.fn = "enforce_limit" =>
        LET q == fcall.args[1]
            max_results == fcall.args[2]
            result == fcall.result
        IN IF q.limits = << >>
           THEN result = [q EXCEPT !.limits = << Min(max_results, MAX_RESULTS_ABSOLUTE) >>,
                                   !.tail = << >>]
           ELSE IF \E j \in 1..Len(q.limits) : q.limits[j] > MAX_RESULTS_ABSOLUTE
           THEN /\ Len(result.limits) = Len(q.limits)
                /\ \A j \in 1..Len(q.limits) :
                      q.limits[j] > MAX_RESULTS_ABSOLUTE =>
                          result.limits[j] = MAX_RESULTS_ABSOLUTE
                /\ [result EXCEPT !.limits = q.limits] = q
           ELSE result = q

(***************************************************************************)
(* Deterministic tool claims (SpecTools).                                  *)
(***************************************************************************)
\* C12: every query a tool has passed to execute_query carries a LIMIT and
\* each of its LIMIT values is at most 1000.
C12_EveryQueryCapped ==
    \A k \in 1..Len(tool.executed) :
        LET query == tool.executed[k].query IN
        /\ query.limits # << >>
        /\ \A j \in 1..Len(query.limits) : query.limits[j] <= MAX_RESULTS_ABSOLUTE

\* the inputs the sanitizer must refuse
BadPath(p) == p = << >> \/ search(<<NUL>>, p) \/ search(<<Dot, Dot>>, p)
PathTools ==
    {"find_dependencies", "analyze_playbook", "get_task_hierarchy", "find_template_usage"}

\* C14: sanitize_path raises PathSanitizationError and returns no path for
\* an input that is empty, holds a null byte or holds '..', whatever
\* allowed_base and allow_absolute are; a tool with a file-path argument has
\* passed no query to the store when the sanitizer refuses the argument, and
\* the path parameter of every query it has passed is what the sanitizer
\* returned for the argument.
C14_BadPathsRaiseBeforeAnyQuery ==
    /\ (fcall.fn = "sanitize_path" /\ BadPath(fcall.args[1])) =>
            /\ fcall.result.raised = "PathSanitizationError"
            /\ fcall.result.path = << >>
    /\ (tool.name \in PathTools /\ BadPath(tool.arg)) =>
            /\ tool.executed = << >>
            /\ tool.pc = "done"
            /\ tool.output.kind = "error"
    /\ (tool.name \in PathTools /\ tool.executed # << >>) =>
            \E c \in CodebasePaths :
                \A k \in 1..Len(tool.executed) :
                    Returned(tool.executed[k].params.path) =
                        sanitize_path(tool.arg, c, FALSE, ServerCwd)

\* a tool was called with '..' inside its path and has returned the
\* sanitizer's message without a query
C14_Witness ==
    /\ tool.name = "find_dependencies"
    /\ search(<<Dot, Dot>>, tool.arg)
    /\ ~search(<<NUL>>, tool.arg)
    /\ tool.pc = "done"
    /\ tool.executed = << >>
    /\ tool.output = SanitizerText(Raised("Path traversal detected: '..' not allowed"))

\* C23: when the store query of a deterministic tool exceeds its deadline,
\* QueryTimeoutError is raised and the tool returns the uniform timeout
\* message, as query_codebase does.
C23_TimeoutMessageUniform ==
    (tool.pc = "done" /\ tool.raised = "QueryTimeoutError") =>
        tool.output = TIMEOUT_ERROR_MSG

(***************************************************************************)
(* Graph builder claims (SpecBuilder).                                     *)
(***************************************************************************)
\* C15: no node of the store has a None component in the merge key of its
\* kind, and every node that is not a Role has a repository.
C15_NoNullMergeKeyStored ==
    \A n \in store.nodes :
        /\ \A k \in Range(get_merge_keys(n.label)) : get(n.props, k) # None
        /\ n.label # "Role" => get(n.props, "repository") # None

\* a flush held a File without repository among other records and wrote the rest
C15_Witness ==
    /\ report.nodes.ran
    /\ FileNoRepo \in Range(report.nodes.batch)
    /\ report.nodes.fails = {}
    /\ Len(report.nodes.batch) >= 2
    /\ store.nodes # {}
    /\ gb.node_batch = << >>

Identifies(record, n) ==
    /\ n.label = record.node_type
    /\ MergeKey(n.label, n.props) =
           MergeKey(record.node_type, to_cypher_dict(record.properties))

\* C17: every edge of the store joins the node identified by the source's
\* merge key to the node identified by the target's merge key of some
\* emitted relationship of its type, and no two edges have the same source,
\* type and target.
C17_EdgesJoinIdentifiedNodes ==
    /\ \A r \in store.edges :
          \E rel \in emitted :
              /\ rel.rel_type = r.type
              /\ \E a \in store.nodes : a.id = r.from /\ Identifies(rel.from_node, a)
              /\ \E b \in store.nodes : b.id = r.to /\ Identifies(rel.to_node, b)
    /\ \A r \in store.edges, q \in store.edges :
          (r.from = q.from /\ r.type = q.type /\ r.to = q.to) => r = q

\* the records of a batch that the flush should try to write
Writable(node_batch) ==
    {node_batch[i] : i \in {j \in 1..Len(node_batch) : missing_keys(node_batch[j]) = << >>}}
Identifiable(rel_batch) ==
    {i \in 1..Len(rel_batch) :
        /\ identifier(to_cypher_dict(rel_batch[i].from_node.properties)) # None
        /\ identifier(to_cypher_dict(rel_batch[i].to_node.properties)) # None}

\* C18: when a write of a flush has failed, the flush has still called the
\* store for every other batch of nodes and every other relationship, has
\* written the nodes of the batches that did not fail, has not raised, and
\* has left the flushed buffer empty; flush() has gone on to the
\* relationships after a failed node write.
C18_FailedBatchSkipped ==
    /\ (report.nodes.ran /\ report.nodes.fails # {}) =>
          /\ ~report.nodes.raised
          /\ Range(report.nodes.attempted) =
                 {node.node_type : node \in Writable(report.nodes.batch)}
          /\ \A node \in Writable(report.nodes.batch) :
                node.node_type \notin report.nodes.fails =>
                    \E n \in store.nodes : Identifies(node, n)
          /\ gb.node_batch = << >>
          /\ report.op = "flush" => (report.rels.ran /\ gb.rel_batch = << >>)
    /\ (report.rels.ran /\ report.rels.fails # {}) =>
          /\ ~report.rels.raised
          /\ Range(report.rels.attempted) = Identifiable(report.rels.batch)
          /\ gb.rel_batch = << >>

\* the write of the File batch failed, the Role batch after it was written
C18_Witness ==
    /\ report.op = "add_node"
    /\ report.nodes.fails = {"File"}
    /\ report.nodes.attempted = <<"File", "Role">>
    /\ \E n \in store.nodes : n.label = "Role"
    /\ \A n \in store.nodes : n.label # "File"
    /\ gb.node_batch = << >>

(***************************************************************************)
(* Command claims (SpecCommands).                                          *)
(***************************************************************************)
\* C19: a build of a repository that follows a build of the same repository,
\* the codebase unchanged, leaves the nodes and the edges of the store as
\* they were, whatever the batch sizes of the two runs.
C19_RebuildChangesNothing ==
    run.rerun => (store.nodes = run.before.nodes /\ store.edges = run.before.edges)

\* C20: after a confirmed clear of repository R the store holds the nodes it
\* held before except those with repository R that are not Role nodes, and
\* the edges it held before except those attached to a removed node.
C20_ClearRepoFrame ==
    (run.op = "clear_repo" /\ run.confirmed) =>
        LET removed == {n \in run.before.nodes :
                           get(n.props, "repository") = run.repo_id /\ n.label # "Role"}
            ids == {n.id : n \in removed}
        IN /\ store.nodes = run.before.nodes \ removed
           /\ store.edges = {r \in run.before.edges : r.from \notin ids /\ r.to \notin ids}

\* r1 was cleared while the store held a Role and nodes of r1 and r2 with edges
C20_Witness ==
    /\ run.op = "clear_repo"
    /\ run.confirmed
    /\ run.repo_id = "r1"
    /\ \E n \in run.before.nodes : get(n.props, "repository") = "r1"
    /\ \E n \in store.nodes : n.label = "Role"
    /\ \E n \in store.nodes : get(n.props, "repository") = "r2"
    /\ store.edges # {}
    /\ store.edges # run.before.edges

(***************************************************************************)
(* Session repository claims (SpecSession).                                *)
(***************************************************************************)
\* C21: a tool invocation without repository_id whose handler runs on a
\* channel after set_repository_context(R) has completed on it, R being the
\* repository set last on the channel, resolves its repository to R.
C21_LaterCallsResolveToSetRepository ==
    (resolved.from_session /\ resolved.expect \in RepoIds) =>
        resolved.repo = resolved.expect

\* C22: a tool invocation without repository_id resolves its repository to
\* nothing or to the repository set last on its own channel since the
\* channel was opened, whatever was set on other channels or on channels
\* closed before; a channel on which nothing was set holds no repository.
C22_ContextPerChannel ==
    /\ resolved.from_session => resolved.repo \in {None, resolved.expect}
    /\ \A c \in Channels :
          (channel[c] /\ ctxHistory[c] = None) =>
              get_repository(contexts, ChannelContext(c)) = None

C22_Witness ==
    /\ resolved.from_session
    /\ resolved.crossed
    /\ resolved.repo \in RepoIds
    /\ \E c \in Channels :
          /\ channel[c]
          /\ get_repository(contexts, ChannelContext(c)) \notin {None, resolved.repo}


\* the node of the store with identity id
node_of(s, id) == CHOOSE n \in s.nodes : n.id = id

\* C27: every edge that a build of repository R has created joins nodes
\* that are Role nodes or carry repository = R: the build attaches no edge
\* to a node of another repository.
C27_EdgesStayInRepository ==
    run.op = "build" =>
        \A r \in store.edges \ run.before.edges :
            \A id \in {r.from, r.to} :
                node_of(store, id).label # "Role"
                    => get(node_of(store, id).props, "repository") = run.repo_id


\* the nodes that add_node accepts in a build of the codebase
accepted_nodes(cb, repo_id) ==
    {n \in {inject(cb.entities[k], repo_id) : k \in 1..Len(cb.entities)} :
        validate_node(load_schema, n)}

\* the relationships that add_relationship accepts in a build of the codebase
accepted_rels(cb, repo_id) ==
    {rel \in {Relationship(cb.rels[k].rel_type,
                           endpoint(cb.extractor, cb.rels[k].from_node, repo_id),
                           endpoint(cb.extractor, cb.rels[k].to_node, repo_id),
                           cb.rels[k].properties) : k \in 1..Len(cb.rels)} :
        validate_relationship(load_schema, rel)}

\* the endpoint e names the node n: same kind, and the path or name of e is
\* the path or the name of n
refers(e, n) ==
    /\ e.node_type = n.node_type
    /\ identifier(to_cypher_dict(e.properties)) # None
    /\ identifier(to_cypher_dict(e.properties)) \in {n.properties.path, n.properties.name}

\* the identities under which the store holds the node n
stored_as(s, n) ==
    {m.id : m \in {x \in s.nodes :
                      /\ x.label = n.node_type
                      /\ MergeKey(x.label, x.props)
                            = MergeKey(n.node_type, to_cypher_dict(n.properties))}}

\* C28: after a build (all nodes added, then all edges, then the final
\* flush) the store holds every accepted edge whose two endpoints name nodes
\* accepted in the same build, for every batch_size.
C28_AcceptedEdgesStored ==
    run.op = "build" =>
        \A rel \in accepted_rels(codebase, run.repo_id) :
            \A a, b \in accepted_nodes(codebase, run.repo_id) :
                refers(rel.from_node, a) /\ refers(rel.to_node, b) =>
                    \E r \in store.edges :
                        /\ r.type = rel.rel_type
                        /\ r.from \in stored_as(store, a)
                        /\ r.to \in stored_as(store, b)


\* C30: after a build of a playbook in which the handler n is both defined
\* and notified, the Handler node of n in the indexed repository exists and
\* carries the module and the line_number of the definition, whatever the
\* order of the placeholder and the definition among the records.
C30_HandlerKeepsDefinition ==
    (/\ run.op = "build"
     /\ Placeholder \in Range(codebase.entities)
     /\ Definition \in Range(codebase.entities)) =>
        /\ \E n \in store.nodes :
               MergeKey(n.label, n.props)
                   = MergeKey("Handler", inject(Definition, run.repo_id).properties)
        /\ \A n \in store.nodes :
               MergeKey(n.label, n.props)
                   = MergeKey("Handler", inject(Definition, run.repo_id).properties)
               => /\ get(n.props, "module") = Definition.properties.module
                  /\ get(n.props, "line_number") = Definition.properties.line_number

====
